---- MODULE Spec2Model ----
(***************************************************************************)
(* A model of MailTriage: the window calculator, the message store, the    *)
(* ingestion pipeline, the classifier and the window renderer.             *)
(*                                                                         *)
(* Time.  Every instant is an integer number of minutes.  A "datetime" of  *)
(* the code is such an integer; a UTC text timestamp "YYYY-MM-DDTHH:MM:SSZ"*)
(* is modelled by the same count (the text is fixed width, so the text     *)
(* order SQLite and Python use on it is the order of the integers).  A     *)
(* calendar date is a day number; day d of a zone starts at wall-clock     *)
(* minute d * MinutesPerDay.                                               *)
(*                                                                         *)
(* Text.  A string is a sequence of one-character strings, so lower(),     *)
(* strip() and the substring test `p in s` are computed, not assumed.      *)
(***************************************************************************)
EXTENDS Integers, Sequences, FiniteSets, Bags, TLC

VARIABLES
    tw,        \* the last compute_windows call: its arguments and its result
    cl,        \* the last classify call: its arguments and its result
    mailbox,   \* the IMAP server: account -> folder -> sequence of raw message names
    db,        \* the store file as committed on disk
    files,     \* the report files under rootdir: pairs <<label day, report>>
    last,      \* what the last invocation did: exit, writes, reports, ingestion log
    wt         \* the unreplied watch: the clock, its last call and what it recorded

vars == <<tw, cl, mailbox, db, files, last, wt>>

----------------------------------------------------------------------------
(* Bounds of the model.                                                     *)

\* calendar days 0 .. MaxDay can be "today" or an explicit --date
MaxDay == 4
\* --days takes 0 .. MaxN (0 is the rejected, non-positive count)
MaxN == 3
\* a run of main takes --date 0 .. MaxRunDay and --days 0 .. MaxRunN
MaxRunDay == 2
MaxRunN == 2

MinutesPerDay == 1440
MinutesPerHour == 60

----------------------------------------------------------------------------
(* core/timewindow.py                                                       *)

\* A zone of the IANA database, as far as the modelled days see it: the UTC
\* offset is `before` until the UTC instant `at`, and `after` from then on.
UTC == [name |-> "UTC", before |-> 0, after |-> 0, at |-> 0]
\* spring forward, as America/New_York in March: 02:00 EST -> 03:00 EDT on day 2
NewYorkSpring == [name |-> "America/New_York(Mar)", before |-> -300, after |-> -240,
                  at |-> 2 * 1440 + 420]
\* fall back, as America/New_York in November: 02:00 EDT -> 01:00 EST on day 2
NewYorkFall == [name |-> "America/New_York(Nov)", before |-> -240, after |-> -300,
                at |-> 2 * 1440 + 360]
\* a date-line change, as Pacific/Apia at the end of 2011-12-29: UTC-10 -> UTC+14,
\* local day 2 does not exist
ApiaDateLine == [name |-> "Pacific/Apia(2011)", before |-> -600, after |-> 840,
                 at |-> 2 * 1440 + 600]

Zones == {UTC, NewYorkSpring, NewYorkFall, ApiaDateLine}

Max2(a, b) == IF a >= b THEN a ELSE b

\* tz.utcoffset(dt) of an aware wall-clock datetime with fold = 0 (the only fold
\* the code builds): a wall time in a gap gets the offset before the change, an
\* ambiguous wall time its first occurrence.
UtcOffset(tz, wall) ==
    IF wall < tz.at + Max2(tz.before, tz.after) THEN tz.before ELSE tz.after

\* dt.astimezone(ZoneInfo("UTC")) of a wall-clock datetime of zone tz
AsUtc(tz, wall) == wall - UtcOffset(tz, wall)

\* datetime.combine(d, time(hh, mm), tzinfo = tz), as wall-clock minutes
Combine(d, hh, mm) == d * MinutesPerDay + hh * MinutesPerHour + mm

\* What compute_windows gives back: the windows, or the ValueError it raised.
Windows(ws) == [raised |-> "", windows |-> ws]
ValueError == [raised |-> "ValueError", windows |-> <<>>]

\* A workday_start text is the sequence of the integers between its colons:
\* "09:00" is <<9, 0>>, "9" is <<9>>, "24:00" is <<24, 0>>.
parse_hhmm_ok(s) ==
    /\ Len(s) = 2
    /\ 0 <= s[1] /\ s[1] <= 23
    /\ 0 <= s[2] /\ s[2] <= 59

\* A mutant of window_for_day: the end is 24 hours after the start in UTC.
window_for_day_24h(d, tz, hh, mm) ==
    LET start_local == Combine(d, hh, mm)
    IN  [label_date |-> d,
         start_utc  |-> AsUtc(tz, start_local),
         end_utc    |-> AsUtc(tz, start_local) + MinutesPerDay]

window_for_day(d, tz, hh, mm) ==
    LET start_local == Combine(d, hh, mm)
        end_local   == start_local + MinutesPerDay   \* + timedelta(days=1): wall clock
    IN  [label_date |-> d,
         start_utc  |-> AsUtc(tz, start_local),
         end_utc    |-> AsUtc(tz, end_local)]

\* A mutant of days_list: the reverse() is left out, newest day first.
days_list_newest_first(today_local, n) == [i \in 1..n |-> today_local - (i - 1)]

\* [today - i for i in range(n)], reversed: oldest -> newest
days_list(today_local, n) == [i \in 1..n |-> today_local - (n - i)]

NoDate == -1
NoDays == -1

\* compute_windows(timezone, workday_start, days, date) with datetime.now(tz).date()
\* = today_local.  The result is a sequence of windows, or ValueError.
compute_windows(tz, workday_start, days, date, today_local) ==
    IF ~parse_hhmm_ok(workday_start) THEN ValueError
    ELSE LET hh == workday_start[1]
             mm == workday_start[2]
         IN  IF date # NoDate THEN Windows(<<window_for_day(date, tz, hh, mm)>>)
             ELSE LET n == IF days = NoDays THEN 1 ELSE days
                  IN  IF n <= 0 THEN ValueError
                      ELSE LET dl == days_list(today_local, n)
                           IN  Windows([i \in 1..n |->
                                            window_for_day(dl[i], tz, hh, mm)])

WorkdayStarts == {<<9, 0>>, <<2, 30>>, <<1, 30>>, <<0, 0>>, <<23, 59>>,
                  <<24, 0>>, <<9, 60>>, <<9>>, <<9, 0, 0>>}

TwIdle == [tz |-> UTC, workday_start |-> <<9, 0>>, days |-> NoDays, date |-> NoDate,
           today |-> 0, result |-> Windows(<<>>), called |-> FALSE]

\* The arguments a caller can pass, with the "now" of the call.
TwArgs ==
    { [tz |-> tz, workday_start |-> ws, days |-> n, date |-> NoDate, today |-> today,
       result |-> Windows(<<>>), called |-> FALSE] :
        tz \in Zones, ws \in WorkdayStarts, n \in {NoDays} \cup (0..MaxN),
        today \in 0..MaxDay }
    \cup
    { [tz |-> tz, workday_start |-> ws, days |-> NoDays, date |-> d, today |-> 0,
       result |-> Windows(<<>>), called |-> FALSE] :
        tz \in Zones, ws \in WorkdayStarts, d \in 0..MaxDay }

\* compute_windows called with a day count (or none).
ComputeWindowsDays ==
    /\ ~tw.called
    /\ tw.date = NoDate
    /\ tw' = [tw EXCEPT !.called = TRUE,
                        !.result = compute_windows(tw.tz, tw.workday_start, tw.days,
                                                   tw.date, tw.today)]
    /\ UNCHANGED <<cl, mailbox, db, files, last, wt>>

\* compute_windows called with an explicit --date.
ComputeWindowsDate ==
    /\ ~tw.called
    /\ tw.date # NoDate
    /\ tw' = [tw EXCEPT !.called = TRUE,
                        !.result = compute_windows(tw.tz, tw.workday_start, tw.days,
                                                   tw.date, tw.today)]
    /\ UNCHANGED <<cl, mailbox, db, files, last, wt>>

----------------------------------------------------------------------------
(* Text: str.lower(), str.strip(), `p in s`, and the parsers the code calls. *)

S0 == <<>>

LowerChar(c) ==
    CASE c = "A" -> "a" [] c = "B" -> "b" [] c = "E" -> "e" [] c = "F" -> "f"
      [] c = "H" -> "h" [] c = "T" -> "t" [] c = "L" -> "l" [] c = "M" -> "m" [] c = "N" -> "n" [] c = "O" -> "o"
      [] c = "P" -> "p" [] c = "R" -> "r" [] c = "S" -> "s" [] c = "W" -> "w"
      [] c = "X" -> "x" [] OTHER -> c

\* s.lower()
Lower(s) == [i \in 1..Len(s) |-> LowerChar(s[i])]

RECURSIVE LStrip(_)
LStrip(s) == IF s # S0 /\ Head(s) = " " THEN LStrip(Tail(s)) ELSE s

RECURSIVE RStrip(_)
RStrip(s) == IF s # S0 /\ s[Len(s)] = " " THEN RStrip(SubSeq(s, 1, Len(s) - 1)) ELSE s

\* s.strip()
Strip(s) == RStrip(LStrip(s))

\* p in s
Contains(p, s) == \E i \in 1..(Len(s) - Len(p) + 1) : SubSeq(s, i, i + Len(p) - 1) = p

StartsWith(p, s) == Len(p) <= Len(s) /\ SubSeq(s, 1, Len(p)) = p

\* the least position of character c in s at or after position from, or 0
IndexFrom(c, s, from) ==
    IF \E i \in from..Len(s) : s[i] = c
    THEN CHOOSE i \in from..Len(s) : s[i] = c /\ \A j \in from..(i - 1) : s[j] # c
    ELSE 0

\* email.utils.getaddresses([s])[0] for a header holding one address, written
\* "addr", "<addr>" or "Name <addr>": the pair (display name, address).
GetAddress(s) ==
    LET lt == IndexFrom("<", s, 1)
        gt == IF lt = 0 THEN 0 ELSE IndexFrom(">", s, lt + 1)
    IN  IF lt # 0 /\ gt # 0
        THEN [name |-> Strip(SubSeq(s, 1, lt - 1)), email |-> Strip(SubSeq(s, lt + 1, gt - 1))]
        ELSE [name |-> S0, email |-> Strip(s)]

\* _MSGID_RE = <[^>]+> ; fullmatch(s)
MsgIdFullMatch(s) ==
    /\ Len(s) >= 3
    /\ s[1] = "<"
    /\ s[Len(s)] = ">"
    /\ \A i \in 2..(Len(s) - 1) : s[i] # ">"

\* _MSGID_RE.findall(s)[0], or S0 when findall(s) is empty: the leftmost "<"
\* whose next ">" lies at least two characters on.
RECURSIVE MsgIdFindFirst(_, _)
MsgIdFindFirst(s, from) ==
    LET lt == IndexFrom("<", s, from)
        gt == IF lt = 0 THEN 0 ELSE IndexFrom(">", s, lt + 1)
    IN  IF lt = 0 \/ gt = 0 THEN S0
        ELSE IF gt >= lt + 2 THEN SubSeq(s, lt, gt)
        ELSE MsgIdFindFirst(s, lt + 1)

\* _SUBJ_PREFIX_RE = ^\s*(re|fw|fwd)\s*:\s* (IGNORECASE); sub("", s) once
SubjPrefixSub(s) ==
    LET t    == LStrip(s)
        low  == Lower(t)
        \* what follows the tag, when the tag is there and a colon follows it
        After(tag) ==
            IF StartsWith(tag, low)
            THEN LET r == LStrip(SubSeq(t, Len(tag) + 1, Len(t)))
                 IN  IF r # S0 /\ Head(r) = ":" THEN <<LStrip(Tail(r))>> ELSE <<>>
            ELSE <<>>
        re   == After(<<"r", "e">>)
        fw   == After(<<"f", "w">>)
        fwd  == After(<<"f", "w", "d">>)
    IN  IF re # <<>> THEN re[1]
        ELSE IF fw # <<>> THEN fw[1]
        ELSE IF fwd # <<>> THEN fwd[1]
        ELSE s

\* re.sub(r"\s+", " ", s)
RECURSIVE CollapseSpaces(_)
CollapseSpaces(s) ==
    IF Len(s) <= 1 THEN s
    ELSE IF s[1] = " " /\ s[2] = " " THEN CollapseSpaces(Tail(s))
    ELSE <<s[1]>> \o CollapseSpaces(Tail(s))

RECURSIVE StripPrefixes(_)
StripPrefixes(s) == LET ns == SubjPrefixSub(s) IN IF ns = s THEN s ELSE StripPrefixes(ns)

\* _normalize_subject
normalize_subject(subject) == Lower(Strip(CollapseSpaces(StripPrefixes(Strip(subject)))))

----------------------------------------------------------------------------
(* The configuration main() is given (an AppConfig) and the mail the IMAP   *)
(* servers hold.                                                            *)

MeAddr  == <<"m", "e", "@", "x">>
Me2Addr == <<"M", "e", "2", "@", "x">>
HmAddr  == <<"h", "m", "@", "x">>
BoAddr  == <<"b", "o", "@", "x">>
PeAddr  == <<"p", "e", "@", "x">>
NwAddr  == <<"n", "w", "@", "x">>

\* AccountConfig: id, identity.primary_address, identity.aliases, imap.folders
Work == [id |-> "work", primary_address |-> MeAddr, aliases |-> <<Me2Addr>>,
         folders |-> <<"INBOX", "Sent">>]
Home == [id |-> "home", primary_address |-> HmAddr, aliases |-> <<>>,
         folders |-> <<"INBOX">>]

\* cfg.accounts, in configured order
Accounts == <<Work, Home>>

\* cfg.time
CfgTime == [timezone |-> UTC, workday_start |-> <<9, 0>>]

\* cfg.rules
Rules == [high_priority_senders |-> <<BoAddr>>,
          suppress     |-> [senders |-> <<>>, subjects |-> <<<<"s", "a", "l", "e">>>>],
          arrival_only |-> [senders |-> <<NwAddr>>, subjects |-> <<>>]]

\* the instant h hours into UTC day d
At(d, h) == d * MinutesPerDay + h * MinutesPerHour

\* a Date header that is missing or that parsedate_to_datetime rejects
NoDateHdr == -1

Id1 == <<"<", "1", ">">>
Id2 == <<"<", "2", ">">>
Id3 == <<"<", "3", ">">>
Id4 == <<"<", "4", ">">>
Id5 == <<"<", "5", ">">>
Id6 == <<"<", "6", ">">>
Id7 == <<"<", "7", ">">>
Id8 == <<"<", "8", ">">>
Id9 == <<"<", "9", ">">>

SubjPlan   == <<"P", "l", "a", "n">>
SubjRePlan == <<"R", "e", ":", " ", "P", "l", "a", "n">>

\* The raw messages (RFC 822 bytes with the server's INTERNALDATE) the servers
\* come to hold.  `text` stands for what select_body and extract_new_text make
\* of the body.
RawMsg(name, mid, from, to, cc, date, internal, subject, refs, irt, text) ==
    [name |-> name, Message_ID |-> mid, From |-> from, To |-> to, Cc |-> cc,
     Date |-> date, InternalDate |-> internal, Subject |-> subject,
     References |-> refs, In_Reply_To |-> irt, text |-> text]

\* the boss opens a conversation, writing under a display name
BossRoot == RawMsg("BossRoot", Id1, <<"B", "o", " ", "<", "b", "o", "@", "x", ">">>,
                   <<MeAddr>>, <<>>, At(1, 10), At(1, 10), SubjPlan, S0, S0, "plan?")
\* the boss follows up, bare address
BossRe == RawMsg("BossRe", Id3, BoAddr, <<MeAddr>>, <<>>, At(1, 14), At(1, 14),
                 SubjRePlan, Id1 \o <<" ">> \o Id2, Id2, "any news?")
\* a colleague answers in the same conversation, earlier than BossRe
PeerRe == RawMsg("PeerRe", Id2, PeAddr, <<MeAddr>>, <<BoAddr>>, At(1, 12), At(1, 12),
                 SubjRePlan, Id1, Id1, "looks fine")
\* the account owner replies from an alias (configured as "Me2@x", written in
\* lower case by the mail client), after BossRe
MyReply == RawMsg("MyReply", Id4, <<"m", "e", "2", "@", "x">>, <<BoAddr>>, <<>>, At(1, 16), At(1, 16),
                  SubjRePlan, Id1 \o <<" ">> \o Id2 \o <<" ">> \o Id3, Id3, "done")
\* the colleague writes again the next day
PeerLate == RawMsg("PeerLate", Id6, <<" ", "P", "e", "@", "X", " ">>, <<MeAddr>>, <<>>,
                   At(2, 10), At(2, 10), SubjRePlan, Id1, S0, "one more thing")
\* a newsletter
News == RawMsg("News", Id7, <<"N", "e", "w", "s", " ", "<", "n", "w", "@", "x", ">">>,
               <<MeAddr>>, <<>>, At(2, 11), At(2, 11),
               <<"S", "A", "L", "E">>, S0, S0, "buy")
\* mail from one configured account to the other: held by both servers
Cross == RawMsg("Cross", Id5, MeAddr, <<HmAddr>>, <<>>, At(2, 12), At(2, 12),
                <<"H", "i">>, S0, S0, "hi")
\* a message with neither Message-ID nor a usable Date header
NoIds == RawMsg("NoIds", S0, PeAddr, <<MeAddr>>, <<>>, NoDateHdr, At(2, 13),
                <<"F", "w", "d", ":", " ", "P", "l", "a", "n">>, S0, S0, "fyi")
\* a second copy of PeerRe's Message-ID with other content (a list copy)
PeerDup == RawMsg("PeerDup", Id2, PeAddr, <<HmAddr>>, <<>>, At(1, 13), At(1, 13),
                  SubjRePlan, Id1, Id1, "[list] looks fine")

\* the colleague opens a conversation of their own on day 1; Cross, of day 2,
\* has the same subject and so falls into its thread
PeerAsk == RawMsg("PeerAsk", Id9, PeAddr, <<MeAddr>>, <<>>, At(1, 11), At(1, 11),
                  <<"H", "i">>, S0, S0, "lunch?")

\* a message whose selected body still holds "<html" (an escaped tag in a
\* text/html part, or one behind the first 2048 characters of a text/plain part)
Leak == RawMsg("Leak", Id8, PeAddr, <<HmAddr>>, <<>>, At(2, 14), At(2, 14),
               <<"H", "i">>, S0, S0, "<html")

\* The order in which the messages reach the servers, in batches, and the
\* folders each lands in.  INBOX of "work" gets BossRe before the older PeerRe.
Arrivals ==
    << << [raw |-> BossRoot, into |-> {<<"work", "INBOX">>}],
          [raw |-> BossRe,   into |-> {<<"work", "INBOX">>}] >>,
       << [raw |-> PeerRe,   into |-> {<<"work", "INBOX">>}],
          [raw |-> MyReply,  into |-> {<<"work", "Sent">>}],
          [raw |-> PeerDup,  into |-> {<<"home", "INBOX">>}],
          [raw |-> PeerAsk,  into |-> {<<"work", "INBOX">>}] >>,
       << [raw |-> PeerLate, into |-> {<<"work", "INBOX">>}],
          [raw |-> News,     into |-> {<<"work", "INBOX">>}] >>,
       << [raw |-> Cross,    into |-> {<<"work", "Sent">>, <<"home", "INBOX">>}],
          [raw |-> NoIds,    into |-> {<<"work", "INBOX">>}] >>,
       << [raw |-> Leak,     into |-> {<<"home", "INBOX">>}],
          [raw |-> NoIds,    into |-> {<<"home", "INBOX">>}] >> >>

AccountIds == {Accounts[i].id : i \in 1..Len(Accounts)}
Folders == {"INBOX", "Sent"}

\* mailbox.box[account id][folder] is the folder's messages in sequence-number
\* order; mailbox.delivered counts the batches that have arrived.
EmptyMailbox == [delivered |-> 0, box |-> [a \in AccountIds |-> [f \in Folders |-> <<>>]]]

\* the messages of a batch that land in folder f of account acct, in order
BatchInto(batch, acct, f) ==
    LET Lands(a) == <<acct, f>> \in a.into
        landed   == SelectSeq(batch, Lands)
    IN  [i \in 1..Len(landed) |-> landed[i].raw]

\* The next batch of messages arrives at its servers.
Deliver ==
    /\ mailbox.delivered < Len(Arrivals)
    /\ LET batch == Arrivals[mailbox.delivered + 1]
       IN  mailbox' = [delivered |-> mailbox.delivered + 1,
                       box |-> [acct \in AccountIds |-> [f \in Folders |->
                                  mailbox.box[acct][f] \o BatchInto(batch, acct, f)]]]
    /\ UNCHANGED <<tw, cl, db, files, last, wt>>

----------------------------------------------------------------------------
(* core/schema.py and core/db.py: the store.                                *)

\* the tables of SCHEMA_V1_SQL
SchemaTables == {"meta", "accounts", "messages", "threads", "triage_state",
                 "tickets", "message_ticket_map", "run_log"}

\* schema_hash(): the SHA-256 of this build's SCHEMA_V1_SQL, as a name
schema_hash == "sha256(SCHEMA_V1_SQL)"
\* the hash a build with another schema definition records
OtherHash == "sha256(another schema)"

\* SQL NULL in a timestamp column
Null == -1

\* A store: `exists` (the file is there), the tables it has, and their rows.
\* run_log has no key: it is a bag of rows (row -> how many copies).
NoStore == [exists |-> FALSE, tables |-> {}, meta |-> {}, accounts |-> {},
            messages |-> {}, threads |-> {}, run_log |-> EmptyBag,
            triage_state |-> {}]

\* SELECT value FROM meta WHERE key = k, as the set of values found (meta.key
\* is the primary key: at most one)
MetaValues(d, k) == {r.value : r \in {m \in d.meta : m.key = k}}

\* _set_meta_if_missing
set_meta_if_missing(d, k, v) ==
    IF MetaValues(d, k) = {} THEN [d EXCEPT !.meta = @ \cup {[key |-> k, value |-> v]}]
    ELSE d

\* the executescript(SCHEMA_V1_SQL) of ensure_schema_v1: CREATE TABLE IF NOT
\* EXISTS for every table.  sqlite3's executescript commits what is pending and
\* runs outside any transaction, so the tables are on disk at once.
create_tables(d) == [d EXCEPT !.exists = TRUE, !.tables = @ \cup SchemaTables]

\* A mutant of ensure_meta: the four keys are written with INSERT OR REPLACE,
\* the last writer wins.
ensure_meta_replace(d, timezone, workday_start) ==
    [d EXCEPT !.meta = {[key |-> "schema_version", value |-> "1"],
                        [key |-> "schema_hash", value |-> schema_hash],
                        [key |-> "timezone", value |-> timezone.name],
                        [key |-> "workday_start", value |-> workday_start]}]

\* the four _set_meta_if_missing calls of ensure_schema_v1 (inside the
\* connection's implicit transaction)
ensure_meta(d, timezone, workday_start) ==
    set_meta_if_missing(
      set_meta_if_missing(
        set_meta_if_missing(
          set_meta_if_missing(d, "schema_version", "1"),
          "schema_hash", schema_hash),
        "timezone", timezone.name),
      "workday_start", workday_start)

\* ensure_schema_v1
ensure_schema_v1(d, timezone, workday_start) ==
    ensure_meta(create_tables(d), timezone, workday_start)

\* verify_schema_hash: TRUE when it returns, FALSE when it raises DatabaseError
verify_schema_hash(d) == MetaValues(d, "schema_hash") = {schema_hash}

\* Database.record_run_window: one more run_log row
record_run_window(d, w) ==
    [d EXCEPT !.run_log = @ (+) SetToBag({[start_utc |-> w.start_utc, end_utc |-> w.end_utc]})]

----------------------------------------------------------------------------
(* ingest/ingest.py                                                         *)

\* resolve_timestamp_utc: the Date header if it parses, else INTERNALDATE
resolve_timestamp_utc(raw) == IF raw.Date # NoDateHdr THEN raw.Date ELSE raw.InternalDate

\* _normalize_addr
normalize_addr(a) == Lower(Strip(a))

\* the e-mail parts of an address header, empty ones dropped, normalised
HeaderEmails(hdr) ==
    LET emails == [i \in 1..Len(hdr) |-> GetAddress(hdr[i]).email]
        Keep(e) == e # S0
    IN  [i \in 1..Len(SelectSeq(emails, Keep)) |-> normalize_addr(SelectSeq(emails, Keep)[i])]

SeqToSet(q) == {q[i] : i \in 1..Len(q)}

\* extract_participants: From, To and Cc addresses (a list without repeats;
\* upsert_thread makes a set of it)
extract_participants(raw) ==
    SeqToSet(HeaderEmails(<<raw.From>>)) \cup SeqToSet(HeaderEmails(raw.To))
      \cup SeqToSet(HeaderEmails(raw.Cc))

\* A mutant of is_outbound: the addresses are compared as written.
is_outbound_case_sensitive(raw, primary, aliases) ==
    Strip(GetAddress(raw.From).email) \in {Strip(primary)} \cup {Strip(a) : a \in SeqToSet(aliases)}

\* is_outbound
is_outbound(raw, primary, aliases) ==
    LET from_email == normalize_addr(GetAddress(raw.From).email)
        ids == {normalize_addr(primary)} \cup {normalize_addr(a) : a \in SeqToSet(aliases)}
    IN  from_email \in ids

\* compute_message_id; a synthetic id is the tuple that the f-string joins
compute_message_id(raw, account_id, folder, uid) ==
    LET mid == Strip(raw.Message_ID)
    IN  IF mid # S0 /\ MsgIdFullMatch(mid) THEN mid
        ELSE <<"synthetic", account_id, folder, ToString(uid)>>

\* _canonical_root_reference, S0 for None
canonical_root_reference(raw) ==
    LET refs == Strip(raw.References)
        irt  == Strip(raw.In_Reply_To)
    IN  IF refs # S0 /\ MsgIdFindFirst(refs, 1) # S0 THEN MsgIdFindFirst(refs, 1)
        ELSE IF irt # S0 THEN MsgIdFindFirst(irt, 1)
        ELSE S0

\* compute_thread_id: the SHA-256 of the basis, modelled by the basis itself
\* (distinct bases give distinct ids)
compute_thread_id(raw) ==
    LET root == canonical_root_reference(raw)
    IN  IF root # S0 THEN <<"ref", root>>
        ELSE <<"subj", normalize_subject(raw.Subject)>>

\* ensure_account_row: INSERT OR IGNORE INTO accounts
ensure_account_row(d, acct) ==
    IF \E r \in d.accounts : r.id = acct.id THEN d
    ELSE [d EXCEPT !.accounts = @ \cup
            {[id |-> acct.id, primary_address |-> acct.primary_address,
              aliases |-> [i \in 1..Len(acct.aliases) |-> Strip(acct.aliases[i])]]}]

\* A mutant of insert_message: INSERT OR REPLACE, the new row takes the place of
\* the stored one.
insert_or_replace_message(d, row) ==
    [d EXCEPT !.messages = {r \in @ : r.message_id # row.message_id} \cup {row}]

\* insert_message: INSERT OR IGNORE INTO messages
insert_message(d, row) ==
    IF \E r \in d.messages : r.message_id = row.message_id THEN d
    ELSE [d EXCEPT !.messages = @ \cup {row}]

\* newer(old_iso, new_dt) of upsert_thread
newer(old_iso, new_dt) == IF old_iso = Null THEN TRUE ELSE new_dt > old_iso

\* A mutant of upsert_thread: the timestamps are overwritten without newer().
upsert_thread_overwrite(d, thread_id, participants, msg_date_utc, inbound, outbound) ==
    LET rows == {t \in d.threads : t.thread_id = thread_id}
        old  == IF rows = {} THEN [participants |-> {}, last_in |-> Null, last_out |-> Null]
                ELSE LET t == CHOOSE t \in rows : TRUE
                     IN  [participants |-> t.participants, last_in |-> t.last_inbound_at_utc,
                          last_out |-> t.last_outbound_at_utc]
    IN  [d EXCEPT !.threads = (@ \ rows) \cup
           {[thread_id |-> thread_id,
             participants |-> participants \cup old.participants,
             last_inbound_at_utc  |-> IF inbound THEN msg_date_utc ELSE old.last_in,
             last_outbound_at_utc |-> IF outbound THEN msg_date_utc ELSE old.last_out]}]

\* A mutant of upsert_thread: the participants of the message take the place of
\* the stored ones.
upsert_thread_last_participants(d, thread_id, participants, msg_date_utc, inbound, outbound) ==
    LET rows == {t \in d.threads : t.thread_id = thread_id}
        row  == CHOOSE t \in rows : TRUE
        last_in  == IF rows = {} THEN Null ELSE row.last_inbound_at_utc
        last_out == IF rows = {} THEN Null ELSE row.last_outbound_at_utc
    IN  [d EXCEPT !.threads = (@ \ rows) \cup
           {[thread_id |-> thread_id, participants |-> participants,
             last_inbound_at_utc |->
                 IF inbound /\ newer(last_in, msg_date_utc) THEN msg_date_utc ELSE last_in,
             last_outbound_at_utc |->
                 IF outbound /\ newer(last_out, msg_date_utc) THEN msg_date_utc ELSE last_out]}]

\* upsert_thread: read the row, merge, INSERT or UPDATE
upsert_thread(d, thread_id, participants, msg_date_utc, inbound, outbound) ==
    LET rows == {t \in d.threads : t.thread_id = thread_id}
        row  == CHOOSE t \in rows : TRUE
        pset == participants \cup
                  (IF rows = {} THEN {} ELSE {normalize_addr(x) : x \in row.participants})
        last_in  == IF rows = {} THEN Null ELSE row.last_inbound_at_utc
        last_out == IF rows = {} THEN Null ELSE row.last_outbound_at_utc
        new_iso  == msg_date_utc
        new_last_in  == IF inbound /\ newer(last_in, msg_date_utc) THEN new_iso ELSE last_in
        new_last_out == IF outbound /\ newer(last_out, msg_date_utc) THEN new_iso ELSE last_out
    IN  [d EXCEPT !.threads = (@ \ rows) \cup
           {[thread_id |-> thread_id, participants |-> pset,
             last_inbound_at_utc |-> new_last_in,
             last_outbound_at_utc |-> new_last_out]}]

\* _search_since and _fetch_rfc822_and_internaldate on a selected folder: the
\* sequence numbers of the messages whose INTERNALDATE day is on or after the
\* UTC day of the window start, in ascending order, with their content.
Fetched(box, window_start_utc) ==
    LET Since(i) == box[i].InternalDate \div MinutesPerDay
                      >= window_start_utc \div MinutesPerDay
        idx == SelectSeq([i \in 1..Len(box) |-> i], Since)
    IN  [k \in 1..Len(idx) |-> [uid |-> idx[k], raw |-> box[idx[k]]]]

\* What may fail outside the program during one run: the secret provider for
\* an account, the connection or login to its server, or SELECT, SEARCH or
\* FETCH on one of its folders.  NoFault: nothing fails.
FaultKinds == {"secret", "connect", "select", "search", "fetch"}
NoFault == [kind |-> "none", account |-> "", folder |-> ""]
Faults ==
    {[kind |-> k, account |-> Accounts[i].id, folder |-> ""] :
        k \in {"secret", "connect"}, i \in 1..Len(Accounts)}
      \cup UNION {{[kind |-> k, account |-> Accounts[i].id,
                     folder |-> Accounts[i].folders[j]] :
                       k \in {"select", "search", "fetch"},
                       j \in 1..Len(Accounts[i].folders)} : i \in 1..Len(Accounts)}

\* what a run meets outside the program: the folders on the servers and the fault
Env(boxes, fault) == [box |-> boxes, fault |-> fault]

\* fault of kind k strikes account acct (at folder f, "" for none)
Hit(env, k, acct, f) ==
    env.fault = [kind |-> k, account |-> acct.id, folder |-> f]

\* the log entry of a raise inside ingest_account called for window w
Failed(kind, acct, folder, w) ==
    [op |-> "raise", kind |-> kind, account |-> acct.id, folder |-> folder,
     start_utc |-> w.start_utc, end_utc |-> w.end_utc]

\* What a step of a run gives back: the store as the connection sees it, the
\* log of what the run has done so far, and the exception that ended the step
\* ("" when it returned).
Returned(d, log) == [raised |-> "", d |-> d, log |-> log]
Raised(e, d, log) == [raised |-> e, d |-> d, log |-> log]

\* The member of a one-element set.  A step of a run is written
\* Only({rest(r) : r \in {step}}): `r = step`, then the rest on r.
Only(S) == CHOOSE x \in S : TRUE

\* The log entry of one pass through insert_message and upsert_thread: the
\* message, the window ingest_account was called for, and the messages row and
\* the threads row of its ids before (in d0) and after (in d1), each as a set of
\* at most one row.
Ingested(acct, folder, uid, raw, row, d0, d1, w) ==
    [op |-> "ingest", account |-> acct.id, folder |-> folder, uid |-> uid,
     start_utc |-> w.start_utc, end_utc |-> w.end_utc,
     raw |-> raw.name, message_id |-> row.message_id, thread_id |-> row.thread_id,
     date_utc |-> row.date_utc, inbound |-> row.inbound,
     row_before |-> {r \in d0.messages : r.message_id = row.message_id},
     row_after  |-> {r \in d1.messages : r.message_id = row.message_id},
     thread_before |-> {t \in d0.threads : t.thread_id = row.thread_id},
     thread_after  |-> {t \in d1.threads : t.thread_id = row.thread_id}]

\* `"<html" in body.lower()` for the body select_body returned
HtmlLeaks(raw) == raw.text = "<html"

\* A mutant of InWindow: the end of the window is not tested.
InWindowFromStart(w, t) == w.start_utc <= t

\* window_start_utc <= msg_date_utc < window_end_utc
InWindow(w, t) == w.start_utc <= t /\ t < w.end_utc

\* the body of the loop `for uid, fm in fetched.items()` of ingest_account
IngestMessage(d, log, acct, folder, uid, raw, w) ==
    LET msg_date_utc == resolve_timestamp_utc(raw)
        outbound == is_outbound(raw, acct.primary_address, acct.aliases)
        inbound  == ~outbound
        message_id == compute_message_id(raw, acct.id, folder, uid)
        thread_id  == compute_thread_id(raw)
        row == [message_id |-> message_id, account_id |-> acct.id, folder |-> folder,
                date_utc |-> msg_date_utc, sender |-> Strip(raw.From),
                recipients_to |-> HeaderEmails(raw.To),
                recipients_cc |-> HeaderEmails(raw.Cc),
                subject |-> Strip(raw.Subject),
                inbound |-> inbound, outbound |-> outbound,
                extracted_new_text |-> raw.text, thread_id |-> thread_id]
        d1 == upsert_thread(insert_message(d, row), thread_id, extract_participants(raw),
                            msg_date_utc, inbound, outbound)
    IN  IF ~InWindow(w, msg_date_utc) THEN Returned(d, log)
        ELSE IF HtmlLeaks(raw)
             THEN Raised("RuntimeError", d, Append(log, Failed("html", acct, folder, w)))
        ELSE Returned(d1, Append(log, Ingested(acct, folder, uid, raw, row, d, d1, w)))

\* the loop over the fetched messages of one folder; an exception leaves it
RECURSIVE IngestFetched(_, _, _, _, _, _)
IngestFetched(d, log, acct, folder, fetched, w) ==
    IF fetched = <<>> THEN Returned(d, log)
    ELSE Only({ IF r.raised # "" THEN r
                ELSE IngestFetched(r.d, r.log, acct, folder, Tail(fetched), w) :
                  r \in {IngestMessage(d, log, acct, folder, Head(fetched).uid,
                                       Head(fetched).raw, w)} })

\* one folder: _select_readonly, _search_since, then (when the search found
\* something) _fetch_rfc822_and_internaldate and the loop over the messages
IngestFolder(d, log, acct, folder, env, w) ==
    Only({ IF Hit(env, "select", acct, folder)
           THEN Raised("RuntimeError", d, Append(log, Failed("select", acct, folder, w)))
           ELSE IF Hit(env, "search", acct, folder)
           THEN Raised("RuntimeError", d, Append(log, Failed("search", acct, folder, w)))
           ELSE IF fetched = <<>> THEN Returned(d, log)
           ELSE IF Hit(env, "fetch", acct, folder)
           THEN Raised("RuntimeError", d, Append(log, Failed("fetch", acct, folder, w)))
           ELSE IngestFetched(d, log, acct, folder, fetched, w) :
             fetched \in {Fetched(env.box[acct.id][folder], w.start_utc)} })

\* the loop `for folder in imap_acct.folders`
RECURSIVE IngestFolders(_, _, _, _, _, _)
IngestFolders(d, log, acct, folders, env, w) ==
    IF folders = <<>> THEN Returned(d, log)
    ELSE Only({ IF r.raised # "" THEN r
                ELSE IngestFolders(r.d, r.log, acct, Tail(folders), env, w) :
                  r \in {IngestFolder(d, log, acct, Head(folders), env, w)} })

\* ingest_account: one account, one window: build_imap_account resolves the
\* secrets, ensure_account_row, _connect_imap, then every configured folder in
\* order
ingest_account(d, log, acct, env, w) ==
    IF Hit(env, "secret", acct, "")
    THEN Raised("SecretProviderError", d, Append(log, Failed("secret", acct, "", w)))
    ELSE Only({ IF Hit(env, "connect", acct, "")
                THEN Raised("RuntimeError", d1, Append(log, Failed("connect", acct, "", w)))
                ELSE IngestFolders(d1, log, acct, acct.folders, env, w) :
                  d1 \in {ensure_account_row(d, acct)} })

----------------------------------------------------------------------------
(* render/window.py: the renderer main() calls.                             *)

\* ORDER BY date_utc ASC (rows of equal date in an order of the database's choosing)
RECURSIVE OrderByDate(_)
OrderByDate(rows) ==
    IF rows = {} THEN <<>>
    ELSE LET r == CHOOSE x \in rows : \A y \in rows : x.date_utc <= y.date_utc
         IN  <<r>> \o OrderByDate(rows \ {r})

\* load_messages_for_window: the rows with start <= date_utc < end, ordered by
\* date_utc
load_messages_for_window(d, w) ==
    OrderByDate({m \in d.messages : w.start_utc <= m.date_utc /\ m.date_utc < w.end_utc})

\* load_threads: the thread rows of the loaded messages
load_threads(d, messages) ==
    {t \in d.threads : t.thread_id \in {m.thread_id : m \in messages}}

\* _norm_email
norm_email(addr) == Lower(Strip(addr))

AnyContains(patterns, value) ==
    \E i \in 1..Len(patterns) : Contains(Lower(patterns[i]), value)

\* A mutant of classify: the high-priority test comes first.
classify_hp_first(msg, rules) ==
    LET sender  == Lower(msg.sender)
        subject == Lower(msg.subject)
    IN  IF \E i \in 1..Len(rules.high_priority_senders) :
              norm_email(rules.high_priority_senders[i]) = norm_email(sender)
        THEN "high_priority"
        ELSE IF AnyContains(rules.suppress.senders, sender)
                  \/ AnyContains(rules.suppress.subjects, subject) THEN "suppress"
        ELSE IF AnyContains(rules.arrival_only.senders, sender)
                  \/ AnyContains(rules.arrival_only.subjects, subject) THEN "arrival_only"
        ELSE "normal"

\* classify
classify(msg, rules) ==
    LET sender  == Lower(msg.sender)
        subject == Lower(msg.subject)
    IN  IF AnyContains(rules.suppress.senders, sender) THEN "suppress"
        ELSE IF AnyContains(rules.suppress.subjects, subject) THEN "suppress"
        ELSE IF AnyContains(rules.arrival_only.senders, sender) THEN "arrival_only"
        ELSE IF AnyContains(rules.arrival_only.subjects, subject) THEN "arrival_only"
        ELSE IF \E i \in 1..Len(rules.high_priority_senders) :
                   norm_email(rules.high_priority_senders[i]) = norm_email(sender)
             THEN "high_priority"
        ELSE "normal"

\* _parse_sender(sender)[1]: the lower-cased address part
parse_sender_email(sender) == Lower(GetAddress(sender).email)

\* build_high_priority_groups of window.py: the inbound messages among
\* `messages` whose sender address is a high-priority sender, by address
build_high_priority_groups(messages, rules) ==
    LET hp_set  == {norm_email(x) : x \in SeqToSet(rules.high_priority_senders)}
        grouped == {m \in messages : m.inbound /\ parse_sender_email(m.sender) \in hp_set}
    IN  {[email |-> e,
          messages |-> {m.message_id : m \in {g \in grouped : parse_sender_email(g.sender) = e}}] :
            e \in {parse_sender_email(m.sender) : m \in grouped}}

\* A mutant of AlreadyReplied: a reply at the very instant of the last inbound
\* message does not count.
AlreadyRepliedStrict(t) ==
    /\ t.last_outbound_at_utc # Null
    /\ t.last_inbound_at_utc # Null
    /\ t.last_outbound_at_utc > t.last_inbound_at_utc

\* "already replied", as both renderers test a thread row
AlreadyReplied(t) ==
    /\ t.last_outbound_at_utc # Null
    /\ t.last_inbound_at_utc # Null
    /\ t.last_outbound_at_utc >= t.last_inbound_at_utc

\* the threads of `normal_msgs` outside hp_thread_ids that are not already
\* replied (a thread without a row counts as not replied)
ActionableThreads(normal_msgs, hp_thread_ids, threads) ==
    LET tids == {m.thread_id : m \in normal_msgs} \ hp_thread_ids
        Open(tid) == \A t \in threads : t.thread_id = tid => ~AlreadyReplied(t)
    IN  {[thread_id |-> tid,
          messages |-> {m.message_id : m \in {n \in normal_msgs : n.thread_id = tid}}] :
            tid \in {x \in tids : Open(x)}}

\* A report: who rendered it, its window, its three sections, and what it was
\* made from: the rows loaded for the window (`loaded`: as the range query
\* returned them), and the sender and thread of
\* every message the store held at that moment.
Report(by, d, w, messages, threads, hp_groups, other, arrivals) ==
    [by |-> by, label_date |-> w.label_date, start_utc |-> w.start_utc, end_utc |-> w.end_utc,
     hp_groups |-> hp_groups, other_threads |-> other, arrival_only |-> arrivals,
     messages |-> messages, threads |-> threads,
     loaded |-> load_messages_for_window(d, w),
     store |-> {[message_id |-> m.message_id, thread_id |-> m.thread_id,
                 sender |-> m.sender] : m \in d.messages}]

\* what of a report is written to YYYY/MM/DD.md
FileOf(r) == [by |-> r.by, start_utc |-> r.start_utc, end_utc |-> r.end_utc,
              hp_groups |-> r.hp_groups, other_threads |-> r.other_threads,
              arrival_only |-> r.arrival_only]

\* render_window of window.py: the report written to YYYY/MM/DD.md
render_window(d, w, rules) ==
    LET messages == SeqToSet(load_messages_for_window(d, w))
        threads  == load_threads(d, messages)
        hp_msgs      == {m \in messages : classify(m, rules) = "high_priority"}
        normal_msgs  == {m \in messages : classify(m, rules) = "normal"}
        arrival_msgs == {m \in messages : classify(m, rules) = "arrival_only"}
        hp_thread_ids == {m.thread_id : m \in hp_msgs}
    IN  Report("window", d, w, messages, threads,
               build_high_priority_groups(hp_msgs, rules),
               ActionableThreads(normal_msgs, hp_thread_ids, threads),
               {m.message_id : m \in arrival_msgs})

----------------------------------------------------------------------------
(* render/daily.py: the renderer with the structured report.                *)

\* normalize_sender_email: the text inside the first <...>, else the parsed
\* address, else the text itself; lower-cased
normalize_sender_email(sender) ==
    LET t  == Strip(sender)
        lt == IndexFrom("<", t, 1)
        gt == IF lt = 0 THEN 0 ELSE IndexFrom(">", t, lt + 1)
    IN  IF t = S0 THEN S0
        ELSE IF lt # 0 /\ gt >= lt + 2 THEN Lower(Strip(SubSeq(t, lt + 1, gt - 1)))
        ELSE IF GetAddress(t).email # S0 THEN Lower(Strip(GetAddress(t).email))
        ELSE Lower(t)

DailyHp(rules) == {Lower(x) : x \in SeqToSet(rules.high_priority_senders)}

\* classify_message
classify_message(msg, rules) ==
    LET subject_l == Lower(Strip(CollapseSpaces(msg.subject)))
    IN  IF AnyContains(rules.suppress.senders, Lower(msg.sender)) THEN "suppress"
        ELSE IF AnyContains(rules.suppress.subjects, subject_l) THEN "suppress"
        ELSE IF AnyContains(rules.arrival_only.senders, Lower(msg.sender)) THEN "arrival_only"
        ELSE IF AnyContains(rules.arrival_only.subjects, subject_l) THEN "arrival_only"
        ELSE IF normalize_sender_email(msg.sender) \in DailyHp(rules) THEN "high_priority"
        ELSE "normal"

MaxOf(S) == CHOOSE x \in S : \A y \in S : y <= x

\* suppress_replied_inbound: the group is dropped when its own latest outbound
\* message is not older than its own latest inbound message
suppress_replied_inbound(msgs) ==
    LET outs == {m.date_utc : m \in {x \in msgs : x.outbound}}
        ins  == {m.date_utc : m \in {x \in msgs : ~x.outbound}}
    IN  IF outs # {} /\ ins # {} /\ MaxOf(outs) >= MaxOf(ins) THEN {} ELSE msgs

\* build_high_priority_groups of daily.py
daily_build_high_priority_groups(messages, rules) ==
    LET grouped == {m \in messages : normalize_sender_email(m.sender) \in DailyHp(rules)}
        Of(e)   == suppress_replied_inbound(
                     {g \in grouped : normalize_sender_email(g.sender) = e})
    IN  {[email |-> e, messages |-> {m.message_id : m \in Of(e)}] :
            e \in {x \in {normalize_sender_email(m.sender) : m \in grouped} : Of(x) # {}}}

\* render_window of daily.py: the markdown it writes takes its high-priority
\* groups from all the loaded messages, its other sections from the classes
daily_render_window(d, w, rules) ==
    LET messages == SeqToSet(load_messages_for_window(d, w))
        threads  == load_threads(d, messages)
        high_priority_thread_ids ==
            {m.thread_id : m \in {x \in messages :
                                    normalize_sender_email(x.sender) \in DailyHp(rules)}}
        normal_msgs  == {m \in messages : classify_message(m, rules) = "normal"}
        arrival_msgs == {m \in messages : classify_message(m, rules) = "arrival_only"}
    IN  Report("daily", d, w, messages, threads,
               daily_build_high_priority_groups(messages, rules),
               ActionableThreads(normal_msgs, high_priority_thread_ids, threads),
               {m.message_id : m \in arrival_msgs})

----------------------------------------------------------------------------
(* cli.py: main(), from the loaded configuration on.                        *)

\* the report files under rootdir, as pairs <<label day, report>>
NoFiles == {}

WriteFile(f, label, report) == {x \in f : x[1] # label} \cup {<<label, report>>}

\* A mutant of IngestAccounts: the accounts are taken last to first.
RECURSIVE IngestAccountsLastFirst(_, _, _, _, _)
IngestAccountsLastFirst(d, log, accts, env, w) ==
    IF accts = <<>> THEN Returned(d, log)
    ELSE Only({ IF r.raised # "" THEN r
                ELSE IngestAccountsLastFirst(r.d, r.log, SubSeq(accts, 1, Len(accts) - 1),
                                             env, w) :
                  r \in {ingest_account(d, log, accts[Len(accts)], env, w)} })

\* the loop `for acct in cfg.accounts` of main
RECURSIVE IngestAccounts(_, _, _, _, _)
IngestAccounts(d, log, accts, env, w) ==
    IF accts = <<>> THEN Returned(d, log)
    ELSE Only({ IF r.raised # "" THEN r
                ELSE IngestAccounts(r.d, r.log, Tail(accts), env, w) :
                  r \in {ingest_account(d, log, Head(accts), env, w)} })

\* the loop `for w in windows` of main: every account is ingested for the
\* window, then the window is rendered from the connection's view of the store;
\* an exception leaves the loop with the files written so far
RECURSIVE RunWindows(_, _, _, _, _, _)
RunWindows(d, log, f, rendered, ws, env) ==
    IF ws = <<>>
    THEN [raised |-> "", d |-> d, log |-> log, f |-> f, rendered |-> rendered]
    ELSE Only({ IF i.raised # ""
                THEN [raised |-> i.raised, d |-> i.d, log |-> i.log, f |-> f,
                      rendered |-> rendered]
                ELSE Only({ RunWindows(i.d,
                                       Append(i.log, [op |-> "render",
                                                      label_date |-> r.label_date]),
                                       WriteFile(f, r.label_date, FileOf(r)),
                                       rendered \cup {r}, Tail(ws), env) :
                              r \in {render_window(i.d, Head(ws), Rules)} }) :
                  i \in {IngestAccounts(d, log, Accounts, env, Head(ws))} })

RECURSIVE RecordRunWindows(_, _)
RecordRunWindows(d, ws) ==
    IF ws = <<>> THEN d ELSE RecordRunWindows(record_run_window(d, Head(ws)), Tail(ws))

\* what an invocation leaves for the next state: its exit, the writes it had
\* made to the store when it raised (or when it ended), the reports it
\* rendered and the log of its ingestion
RunResult(exit, before, created, working, rendered, log) ==
    [exit |-> exit,
     writes |-> (IF created.tables # before.tables THEN {"create table"} ELSE {})
                  \cup (IF working.meta # before.meta THEN {"insert meta"} ELSE {})
                  \cup (IF working.run_log # before.run_log THEN {"insert run_log"} ELSE {}),
     rendered |-> rendered, log |-> log]

NoRun == [exit |-> "", writes |-> {}, rendered |-> {}, log |-> <<>>]

\* run_log is append-only: the model stops starting runs once it holds this many rows
MaxRunLog == 2

\* "now" for a run, as a local calendar day: not before the day of the latest
\* arrival
Today == IF mailbox.delivered = 0 THEN 0
         ELSE LET batch == Arrivals[mailbox.delivered]
              IN  batch[Len(batch)].raw.InternalDate \div MinutesPerDay

\* A mutant of Database_exit: the connection commits whatever it holds.
Database_exit_commit(exc, committed, working) == working

\* Database.__exit__: commit the connection's transaction when the block ended
\* without an exception, roll it back otherwise.  `committed` is the store as
\* last committed, `working` the store as the connection sees it.
Database_exit(exc, committed, working) ==
    IF exc = "" THEN working ELSE committed

\* mailtriage run [--days N | --date D] with the configuration's time settings
\* cfg_time, while `fault` fails outside the program: open the store, ensure
\* and verify the schema, compute the windows, log them, ingest and render
\* each, commit; any exception rolls back what the connection's transaction
\* holds.  MainRun is what main() does to the store, the files and the record
\* of the last run.
MainRun(cfg_time, days, date, fault) ==
    LET created == create_tables(db)
        ensured == ensure_meta(created, cfg_time.timezone, cfg_time.workday_start)
    IN  /\ BagCardinality(db.run_log) < MaxRunLog
        /\ IF ~verify_schema_hash(ensured)
           THEN /\ db' = Database_exit("DatabaseError", created, ensured)
                /\ files' = files
                /\ last' = RunResult("DatabaseError", db, created, ensured, {}, <<>>)
           ELSE \E wins \in {compute_windows(cfg_time.timezone, cfg_time.workday_start,
                                              days, date, Today)} :
                IF wins.raised # ""
                THEN /\ db' = Database_exit(wins.raised, created, ensured)
                     /\ files' = files
                     /\ last' = RunResult(wins.raised, db, created, ensured, {}, <<>>)
                ELSE \E done \in {RunWindows(RecordRunWindows(ensured, wins.windows), <<>>,
                                              files, {}, wins.windows,
                                              Env(mailbox.box, fault))} :
                     IF done.raised # ""
                     THEN /\ db' = Database_exit(done.raised, created, done.d)
                          /\ files' = done.f
                          /\ last' = RunResult(done.raised, db, created, done.d,
                                               done.rendered, done.log)
                     ELSE /\ db' = Database_exit("", created, done.d)
                          /\ files' = done.f
                          /\ last' = RunResult("ok", db, created, done.d,
                                               done.rendered, done.log)

\* main() run from the command line
Main(cfg_time, days, date, fault) ==
    /\ MainRun(cfg_time, days, date, fault)
    /\ UNCHANGED <<tw, cl, mailbox, wt>>

\* mailtriage run --days N (N absent: one day)
MainDays == \E n \in {NoDays} \cup (0..MaxRunN) : Main(CfgTime, n, NoDate, NoFault)

\* mailtriage run --date D
MainDate == \E d \in 0..MaxRunDay : Main(CfgTime, NoDays, d, NoFault)

\* mailtriage run with a configuration whose time.workday_start is out of range
BadWorkdayStarts == {<<24, 0>>, <<9, 60>>}
MainBadStart ==
    \E ws \in BadWorkdayStarts :
        Main([timezone |-> UTC, workday_start |-> ws], NoDays, NoDate, NoFault)

\* mailtriage run --days N while a secret, a connection or an IMAP command fails
MainFault == \E fault \in Faults : \E n \in 1..MaxRunN : Main(CfgTime, n, NoDate, fault)

\* daily.render_window called on the store for the window of day d, with an
\* output_root of its own (main never calls it): the report is kept in `last`
RenderDaily ==
    /\ db.exists
    /\ \E d \in 0..MaxRunDay :
         LET r == daily_render_window(db, window_for_day(d, CfgTime.timezone,
                      CfgTime.workday_start[1], CfgTime.workday_start[2]), Rules)
         IN  last' = [exit |-> "ok", writes |-> {}, rendered |-> {r}, log |-> <<>>]
    /\ UNCHANGED <<tw, cl, mailbox, db, files, wt>>

----------------------------------------------------------------------------
(* watch/unreplied.py and watch/notify_unreplied.py: the unreplied watch.   *)

\* the clock when the watch is first looked at, in minutes
WatchStart == 3000

\* the clock moves at most this many times
MaxTicks == 2

\* the steps the clock moves by, in minutes
WatchSteps == {20, 60}

\* _like_json_contains and `recipients LIKE ?`: the address, in quotes, occurs
\* in the JSON array text of the lowercased addresses
like_json_contains(recipients, addr) ==
    \E i \in 1..Len(recipients) : recipients[i] = addr

\* addrs = [a.strip().lower() for a in target_addresses if a and a.strip()]
TargetAddrs(target_addresses) ==
    LET Kept(a) == a # S0 /\ Strip(a) # S0
        kept == SelectSeq(target_addresses, Kept)
    IN  [i \in 1..Len(kept) |-> Lower(Strip(kept[i]))]

\* the rows the CTE `req` ranges over: inbound messages not older than the
\* cutoff with one of addrs in To or Cc
Req(d, addrs, cutoff) ==
    {m \in d.messages :
        /\ m.date_utc >= cutoff
        /\ m.inbound
        /\ \E i \in 1..Len(addrs) :
             \/ like_json_contains(m.recipients_to, addrs[i])
             \/ like_json_contains(m.recipients_cc, addrs[i])}

\* the row of `req` with rn = 1 for thread tid: the earliest by date_utc
ReqFirst(req, tid) ==
    CHOOSE m \in req :
        /\ m.thread_id = tid
        /\ \A x \in req : x.thread_id = tid => m.date_utc <= x.date_utc

\* the CTE `maxes`: the newest date_utc of thread tid among the messages not
\* older than the cutoff
MaxDate(d, tid, cutoff) ==
    LET dates == {m.date_utc : m \in {x \in d.messages :
                                         x.thread_id = tid /\ x.date_utc >= cutoff}}
    IN  CHOOSE x \in dates : \A y \in dates : y <= x

UnrepliedThread(m) ==
    [thread_id |-> m.thread_id, date_utc |-> m.date_utc, sender |-> m.sender,
     subject |-> m.subject]

\* find_unreplied_threads: per thread the earliest inbound message to a target
\* within the lookback, kept when its date is the newest date of the thread
\* within the lookback and it is at least unreplied_after_minutes old
find_unreplied_threads(d, target_addresses, lookback_days, unreplied_after_minutes, now_utc) ==
    LET cutoff == now_utc - lookback_days * MinutesPerDay
        addrs  == TargetAddrs(target_addresses)
        req    == Req(d, addrs, cutoff)
        Old(r) == now_utc - r.date_utc >= unreplied_after_minutes
    IN  IF target_addresses = <<>> \/ lookback_days <= 0 \/ unreplied_after_minutes <= 0
           \/ addrs = <<>>
        THEN <<>>
        ELSE SelectSeq(OrderByDate({UnrepliedThread(ReqFirst(req, tid)) :
                 tid \in {t \in {m.thread_id : m \in req} :
                             MaxDate(d, t, cutoff) = ReqFirst(req, t).date_utc}}), Old)

\* _entity_type: "watch_unreplied:" followed by the rule id
entity_type(rule_id) == <<"watch_unreplied", ":", rule_id>>

\* A mutant of get_last_notified_at_utc: no row is ever found.
get_last_notified_never(d, rule_id, thread_id) == Null

\* _get_last_notified_at_utc: updated_at_utc of the thread's row for the rule,
\* Null when there is none
get_last_notified_at_utc(d, rule_id, thread_id) ==
    LET rows == {r \in d.triage_state :
                    r.entity_type = entity_type(rule_id) /\ r.entity_id = thread_id}
    IN  IF rows = {} THEN Null ELSE (CHOOSE r \in rows : TRUE).updated_at_utc

\* _upsert_notified: INSERT ... ON CONFLICT(entity_id, entity_type) DO UPDATE;
\* updated_at_utc is the clock of the store ('now')
upsert_notified(d, rule_id, thread, clock) ==
    [d EXCEPT !.triage_state =
        {r \in @ : ~(r.entity_type = entity_type(rule_id) /\ r.entity_id = thread.thread_id)}
          \cup {[entity_id |-> thread.thread_id, entity_type |-> entity_type(rule_id),
                 state |-> [status |-> "open", date_utc |-> thread.date_utc,
                            sender |-> thread.sender, subject |-> thread.subject],
                 updated_at_utc |-> clock]}]

\* the loop `for t in to_notify: _upsert_notified(...)`
RECURSIVE UpsertAll(_, _, _, _)
UpsertAll(d, rule_id, to_notify, clock) ==
    IF to_notify = <<>> THEN d
    ELSE UpsertAll(upsert_notified(d, rule_id, Head(to_notify), clock), rule_id,
                   Tail(to_notify), clock)

\* cooldown = timedelta(minutes=max(1, int(rule.notify_cooldown_minutes or 60)))
Cooldown(rule) ==
    Max2(1, IF rule.notify_cooldown_minutes = 0 THEN 60 ELSE rule.notify_cooldown_minutes)

\* the candidates of a rule that are not in cooldown
ToNotify(d, rule, now_utc) ==
    LET Due(t) == LET l == get_last_notified_at_utc(d, rule.id, t.thread_id)
                  IN  ~(l # Null /\ now_utc - l < Cooldown(rule))
    IN  SelectSeq(find_unreplied_threads(d, rule.target_addresses, rule.lookback_days,
                                         rule.unreplied_after_minutes, now_utc), Due)

\* the keyword parameters of core.notify.notify(title, message)
NotifyParams == {"title", "message"}

\* A call of notify with the given keywords besides title and message: Python
\* raises TypeError for a keyword the function does not have; otherwise the
\* notification is handed to the desktop.
Notify(sent, keywords, message) ==
    IF keywords \subseteq NotifyParams
    THEN [raised |-> "", sent |-> Append(sent, message)]
    ELSE [raised |-> "TypeError", sent |-> sent]

\* what run_unreplied_watch has done so far: the store as its connection sees
\* it, total_notified, the notifications sent, the threads put in to_notify, whether watch/unreplied.html was written, and the
\* exception that ended it
WatchBegin(d) ==
    [raised |-> "", d |-> d, total |-> 0, sent |-> <<>>, selected |-> {}, page |-> FALSE]

\* the message of a rule's notification: the count and the subjects of the
\* last max_items_in_notification threads, newest first
WatchMessage(rule, to_notify, max_items) ==
    LET n   == Len(to_notify)
        top == SubSeq(to_notify, Max2(1, n - max_items + 1), n)
    IN  [rule |-> rule.id, count |-> n,
         subjects |-> [i \in 1..Len(top) |-> top[Len(top) + 1 - i].subject]]

\* the threads of a rule's to_notify, with the rule's id and cooldown setting
Selected(rule, to_notify) ==
    {[rule_id |-> rule.id, cooldown |-> rule.notify_cooldown_minutes,
      thread_id |-> to_notify[i].thread_id] : i \in 1..Len(to_notify)}

\* A mutant of WatchRule: a rule with nothing to notify is not skipped.
WatchRuleNoSkip(acc, rule, cfg, now_utc) ==
    IF rule.target_addresses = <<>> THEN acc
    ELSE Only({ Only({ [raised |-> n.raised,
                        d |-> UpsertAll(acc.d, rule.id, to_notify, now_utc),
                        total |-> acc.total + Len(to_notify),
                        sent |-> n.sent,
                        selected |-> acc.selected \cup Selected(rule, to_notify),
                        page |-> acc.page \/ cfg.output_root # Null] :
                       n \in {Notify(acc.sent, {"open_url"},
                                     WatchMessage(rule, to_notify,
                                                  cfg.max_items_in_notification))} }) :
                  to_notify \in {ToNotify(acc.d, rule, now_utc)} })

\* the body of the loop `for rule in cfg.rules` of run_unreplied_watch
WatchRule(acc, rule, cfg, now_utc) ==
    IF rule.target_addresses = <<>> THEN acc
    ELSE Only({ IF to_notify = <<>> THEN acc
                ELSE Only({ [raised |-> n.raised,
                             d |-> UpsertAll(acc.d, rule.id, to_notify, now_utc),
                             total |-> acc.total + Len(to_notify),
                             sent |-> n.sent,
                             selected |-> acc.selected \cup Selected(rule, to_notify),
                             page |-> acc.page \/ cfg.output_root # Null] :
                            n \in {Notify(acc.sent, {"open_url"},
                                          WatchMessage(rule, to_notify,
                                                       cfg.max_items_in_notification))} }) :
                  to_notify \in {ToNotify(acc.d, rule, now_utc)} })

\* the loop over the rules; an exception leaves it
RECURSIVE WatchRules(_, _, _, _)
WatchRules(acc, rules, cfg, now_utc) ==
    IF rules = <<>> THEN acc
    ELSE Only({ IF r.raised # "" THEN r
                ELSE WatchRules(r, Tail(rules), cfg, now_utc) :
                  r \in {WatchRule(acc, Head(rules), cfg, now_utc)} })

\* run_unreplied_watch: `total` is what it returns when nothing was raised
run_unreplied_watch(d, cfg, now_utc) ==
    IF ~cfg.enabled THEN WatchBegin(d)
    ELSE WatchRules(WatchBegin(d), cfg.rules, cfg, now_utc)

\* The store the watch reads: messages rows as ingestion leaves them.
WatchIdA == <<"<", "a", ">">>
WatchIdB == <<"<", "b", ">">>
WatchIdC == <<"<", "c", ">">>
WatchIdE == <<"<", "e", ">">>
WatchIdF == <<"<", "f", ">">>

WatchRow(n, root, date_utc, inbound, to, cc) ==
    [message_id |-> <<"<", root[2], n, ">">>, account_id |-> Work.id, folder |-> "INBOX",
     date_utc |-> date_utc, sender |-> IF inbound THEN PeAddr ELSE MeAddr,
     recipients_to |-> to, recipients_cc |-> cc, subject |-> SubjRePlan,
     inbound |-> inbound, outbound |-> ~inbound, extracted_new_text |-> "fyi",
     thread_id |-> <<"ref", root>>]

\* thread a: two unanswered inbound messages to me; b: one, to me in Cc;
\* c: one answered by me; e: one to somebody else, then one to me; f: one to
\* me that leaves the lookback of one day when the clock moves
WatchMessages ==
    << WatchRow("1", WatchIdF, 1600, TRUE, <<MeAddr>>, <<>>),
       WatchRow("1", WatchIdE, 2600, TRUE, <<BoAddr>>, <<>>),
       WatchRow("2", WatchIdE, 2650, TRUE, <<MeAddr>>, <<>>),
       WatchRow("1", WatchIdC, 2700, TRUE, <<MeAddr>>, <<>>),
       WatchRow("2", WatchIdC, 2750, FALSE, <<PeAddr>>, <<>>),
       WatchRow("1", WatchIdA, 2800, TRUE, <<MeAddr>>, <<>>),
       WatchRow("2", WatchIdA, 2900, TRUE, <<MeAddr>>, <<BoAddr>>),
       WatchRow("1", WatchIdB, 2950, TRUE, <<BoAddr>>, <<MeAddr>>) >>

RECURSIVE WatchInsert(_, _)
WatchInsert(d, rows) ==
    IF rows = <<>> THEN d
    ELSE WatchInsert(
           upsert_thread(insert_message(d, Head(rows)), Head(rows).thread_id,
                         SeqToSet(Head(rows).recipients_to)
                           \cup SeqToSet(Head(rows).recipients_cc)
                           \cup {Head(rows).sender},
                         Head(rows).date_utc, Head(rows).inbound, Head(rows).outbound),
           Tail(rows))

WatchStore ==
    WatchInsert(ensure_account_row(
                  ensure_schema_v1(NoStore, CfgTime.timezone, CfgTime.workday_start), Work),
                WatchMessages)

\* the rules and configurations the watch is run with
WatchRuleMe == [id |-> "me", target_addresses |-> << <<" ", "M", "e", "@", "X">> >>,
                unreplied_after_minutes |-> 60, lookback_days |-> 1,
                notify_cooldown_minutes |-> 30]
WatchRuleBo == [id |-> "bo", target_addresses |-> <<BoAddr>>,
                unreplied_after_minutes |-> 60, lookback_days |-> 1,
                notify_cooldown_minutes |-> 0]
WatchRuleNobody == [id |-> "nobody", target_addresses |-> <<>>,
                    unreplied_after_minutes |-> 60, lookback_days |-> 1,
                    notify_cooldown_minutes |-> 30]
WatchRuleHm == [id |-> "hm", target_addresses |-> <<HmAddr>>,
                unreplied_after_minutes |-> 60, lookback_days |-> 1,
                notify_cooldown_minutes |-> 30]

WatchConfig(enabled, rules) ==
    [enabled |-> enabled, rules |-> rules, max_items_in_notification |-> 5,
     output_root |-> Null]

WatchConfigs ==
    {WatchConfig(FALSE, <<WatchRuleMe>>),
     WatchConfig(TRUE, <<WatchRuleNobody>>),
     WatchConfig(TRUE, <<WatchRuleHm>>),
     WatchConfig(TRUE, <<WatchRuleMe>>),
     WatchConfig(TRUE, <<WatchRuleNobody, WatchRuleBo, WatchRuleMe>>)}

\* the watch has not been called
WtIdle == [now |-> WatchStart, ticks |-> 0, op |-> "", args |-> <<>>, out |-> <<>>,
           notified |-> <<>>]

\* time passes
Tick ==
    /\ wt.ticks < MaxTicks
    /\ \E step \in WatchSteps :
         wt' = [wt EXCEPT !.now = @ + step, !.ticks = @ + 1]
    /\ UNCHANGED <<tw, cl, mailbox, db, files, last>>

\* find_unreplied_threads called on the store
FindUnrepliedThreads ==
    /\ \E targets \in {<<>>, <<MeAddr>>, <<BoAddr, <<" ">>, <<" ", "M", "e", "@", "X">> >>},
          lookback_days \in {0, 1}, unreplied_after_minutes \in {0, 60} :
         wt' = [wt EXCEPT
                  !.op = "find",
                  !.args = [target_addresses |-> targets, lookback_days |-> lookback_days,
                            unreplied_after_minutes |-> unreplied_after_minutes,
                            now_utc |-> wt.now],
                  !.out = find_unreplied_threads(db, targets, lookback_days,
                                                 unreplied_after_minutes, wt.now)]
    /\ UNCHANGED <<tw, cl, mailbox, db, files, last>>

\* run_unreplied_watch called with the clock's time.  Its caller is outside the
\* repository's sources: an exception either leaves the caller's
\* `with Database.open(...)` block (rollback) or is handled inside it (commit).
\* wt.notified lists, call by call, what the committed calls put in to_notify.
RunUnrepliedWatch ==
    /\ \E cfg \in WatchConfigs :
       \E res \in {run_unreplied_watch(db, cfg, wt.now)} :
       \E exc \in {"", res.raised} :
         /\ db' = Database_exit(exc, db, res.d)
         /\ wt' = [wt EXCEPT
                     !.op = "watch",
                     !.args = cfg,
                     !.out = [at |-> wt.now, raised |-> res.raised,
                              returned |-> IF res.raised = "" THEN res.total ELSE Null,
                              sent |-> res.sent, selected |-> res.selected,
                              wrote |-> res.d.triage_state # db.triage_state,
                              committed |-> exc = ""],
                     !.notified = IF exc = "" /\ res.selected # {}
                                  THEN Append(@, [at |-> wt.now,
                                                  selected |-> res.selected])
                                  ELSE @]
    /\ UNCHANGED <<tw, cl, mailbox, files, last>>

\* no classifier call yet
ClIdle == [sender |-> S0, subject |-> S0, rules |-> Rules, by |-> "", result |-> "",
           called |-> FALSE]

Init ==
    /\ tw = TwIdle
    /\ cl = ClIdle
    /\ mailbox = EmptyMailbox
    /\ db = NoStore
    /\ files = NoFiles
    /\ last = NoRun
    /\ wt = WtIdle

Next == Deliver \/ MainDays \/ MainDate \/ RenderDaily

Spec == Init /\ [][Next]_vars

----------------------------------------------------------------------------
(* The window calculator on its own: any arguments, any "now".              *)

InitWindows ==
    /\ tw \in TwArgs
    /\ cl = ClIdle
    /\ mailbox = EmptyMailbox
    /\ db = NoStore
    /\ files = NoFiles
    /\ last = NoRun
    /\ wt = WtIdle

NextWindows == ComputeWindowsDays \/ ComputeWindowsDate

SpecWindows == InitWindows /\ [][NextWindows]_vars

TwWindows == IF tw.called THEN tw.result.windows ELSE <<>>

\* the wall-clock minute at which window w of the last call starts
TwStartWall(w) == Combine(w.label_date, tw.workday_start[1], tw.workday_start[2])

\* how far the zone's UTC offset moves between the start and the end of window w
TwOffsetChange(w) ==
    UtcOffset(tw.tz, TwStartWall(w) + MinutesPerDay) - UtcOffset(tw.tz, TwStartWall(w))

\* C4 (as amended): for N requested days compute_windows returns N windows, oldest
\* to newest (label days ascending by one), contiguous (each end_utc is the next
\* start_utc) and pairwise disjoint, with start_utc never decreasing; start_utc is
\* strictly increasing across every window over which the zone's UTC offset moves
\* by less than 24 hours (a date-line change leaves the skipped day's window empty).
C4_WindowsContiguous ==
    LET ws == TwWindows
    IN  /\ (tw.called /\ tw.date = NoDate /\ tw.result.raised = "")
             => Len(ws) = (IF tw.days = NoDays THEN 1 ELSE tw.days)
        /\ \A i \in 1..Len(ws) : ws[i].start_utc <= ws[i].end_utc
        /\ \A i \in 1..(Len(ws) - 1) :
             /\ ws[i + 1].label_date = ws[i].label_date + 1
             /\ ws[i].end_utc = ws[i + 1].start_utc
             /\ ws[i].start_utc <= ws[i + 1].start_utc
             /\ TwOffsetChange(ws[i]) < MinutesPerDay
                  => ws[i].start_utc < ws[i + 1].start_utc
        /\ \A i, j \in 1..Len(ws) : i < j => ws[i].end_utc <= ws[j].start_utc

\* C4 witness: three windows were computed across a daylight-saving change.
C4_Witness ==
    /\ Len(TwWindows) = 3
    /\ tw.tz = NewYorkSpring
    /\ tw.today = 3
    /\ TwWindows[1].end_utc - TwWindows[1].start_utc # MinutesPerDay

\* C4 as stated: contiguous and start_utc strictly increasing, for every zone.
C4_Original ==
    \A i \in 1..(Len(TwWindows) - 1) :
        /\ TwWindows[i].end_utc = TwWindows[i + 1].start_utc
        /\ TwWindows[i].start_utc < TwWindows[i + 1].start_utc

\* C5 (as amended): every window runs from the local workday start of its label
\* day to the local workday start of the next day, so in UTC it spans 24 hours less
\* the change of the zone's UTC offset between its two ends: exactly 24 hours when
\* the offset is the same at both ends, 23 or 25 hours across a daylight-saving
\* change.
C5_WindowSpan ==
    \A i \in 1..Len(TwWindows) :
        LET w == TwWindows[i]
        IN  /\ w.start_utc = AsUtc(tw.tz, TwStartWall(w))
            /\ w.end_utc - w.start_utc = MinutesPerDay - TwOffsetChange(w)
            /\ TwOffsetChange(w) = 0 => w.end_utc - w.start_utc = MinutesPerDay

\* C5 witness: a window over the spring-forward change was computed; it is 23 hours.
C5_Witness ==
    /\ Len(TwWindows) = 1
    /\ tw.tz = NewYorkSpring
    /\ tw.date = 1
    /\ tw.workday_start = <<9, 0>>
    /\ TwWindows[1].end_utc - TwWindows[1].start_utc = 23 * MinutesPerHour

\* C5 as stated: every window spans exactly 24 hours in UTC.
C5_Original ==
    \A i \in 1..Len(TwWindows) :
        TwWindows[i].end_utc - TwWindows[i].start_utc = MinutesPerDay

----------------------------------------------------------------------------
(* The classifiers on their own: any stored sender and subject, any rules.   *)

\* From values as ingest_account stores them (stripped)
ClSenders == { BoAddr,
               <<"B", "O", "@", "X">>,
               <<"B", "o", " ", "<", "b", "o", "@", "x", ">">>,
               <<"<", "b", "o", "@", "x", ">">>,
               PeAddr,
               <<"N", "e", "w", "s", " ", "<", "n", "w", "@", "x", ">">> }

ClSubjects == { SubjPlan, <<"S", "A", "L", "E">>, <<"H", "i">>,
                <<"R", "e", ":", " ", "s", "a", "l", "e", " ", "p", "l", "a", "n">> }

\* rule sets: high-priority senders, suppress and arrival-only patterns
ClRules ==
    { [high_priority_senders |-> hp,
       suppress     |-> [senders |-> ss, subjects |-> sj],
       arrival_only |-> [senders |-> as, subjects |-> aj]] :
        hp \in {<<>>, <<BoAddr>>, <<PeAddr, <<" ", "B", "o", "@", "X", " ">>>>},
        ss \in {<<>>, <<<<"B", "O", "@">>>>},
        sj \in {<<>>, <<<<"s", "a", "l", "e">>>>},
        as \in {<<>>, <<NwAddr>>, <<BoAddr>>},
        aj \in {<<>>, <<<<"P", "L", "A", "N">>>>} }

ClArgs == { [sender |-> a, subject |-> b, rules |-> r, by |-> "", result |-> "",
             called |-> FALSE] : a \in ClSenders, b \in ClSubjects, r \in ClRules }

\* window.classify applied to a stored row
Classify ==
    /\ ~cl.called
    /\ cl' = [cl EXCEPT !.called = TRUE, !.by = "window",
                        !.result = classify([sender |-> cl.sender, subject |-> cl.subject],
                                            cl.rules)]
    /\ UNCHANGED <<tw, mailbox, db, files, last, wt>>

\* daily.classify_message applied to a stored row
ClassifyMessage ==
    /\ ~cl.called
    /\ cl' = [cl EXCEPT !.called = TRUE, !.by = "daily",
                        !.result = classify_message([sender |-> cl.sender,
                                                     subject |-> cl.subject], cl.rules)]
    /\ UNCHANGED <<tw, mailbox, db, files, last, wt>>

InitClassify ==
    /\ tw = TwIdle
    /\ cl \in ClArgs
    /\ mailbox = EmptyMailbox
    /\ db = NoStore
    /\ files = NoFiles
    /\ last = NoRun
    /\ wt = WtIdle

NextClassify == Classify \/ ClassifyMessage

SpecClassify == InitClassify /\ [][NextClassify]_vars

----------------------------------------------------------------------------
(* main() on a store that is already there: made by this build, or by a     *)
(* build with another schema definition.                                    *)

\* the meta rows a build recording hash h writes, restricted to `keys`
MetaRows(h, keys) ==
    {m \in {[key |-> "schema_version", value |-> "1"],
            [key |-> "schema_hash", value |-> h],
            [key |-> "timezone", value |-> "UTC"],
            [key |-> "workday_start", value |-> <<9, 0>>]} : m.key \in keys}

\* stores of a build whose schema hash is OtherHash: it has a meta table with
\* its hash, and may lack tables and meta keys this build has
ForeignStores ==
    { [NoStore EXCEPT !.exists = TRUE, !.tables = SchemaTables \ missing,
                      !.meta = MetaRows(OtherHash, keys)] :
        missing \in SUBSET {"triage_state", "tickets", "message_ticket_map"},
        keys \in {{"schema_hash"}, {"schema_version", "schema_hash"},
                  {"schema_version", "schema_hash", "timezone", "workday_start"}} }

\* no store yet, or the store this build made on an earlier run
OwnStores == {NoStore, ensure_schema_v1(NoStore, CfgTime.timezone, CfgTime.workday_start)}

InitSchema ==
    /\ tw = TwIdle
    /\ cl = ClIdle
    /\ mailbox = EmptyMailbox
    /\ db \in ForeignStores \cup OwnStores
    /\ files = NoFiles
    /\ last = NoRun
    /\ wt = WtIdle

NextSchema == Deliver \/ MainDays \/ MainDate

SpecSchema == InitSchema /\ [][NextSchema]_vars

----------------------------------------------------------------------------
(* Properties of the ingestion pipeline (specification Spec).               *)

\* the passes through insert_message and upsert_thread of the last run
LastIngests == {last.log[i] : i \in {j \in 1..Len(last.log) : last.log[j].op = "ingest"}}

\* C1: the messages table never holds two rows with the same message_id, and
\* an insert_message whose message_id is already stored leaves the stored row as
\* it was, column for column (insert if absent, never overwrite).
C1_InsertIdempotent ==
    /\ \A r1, r2 \in db.messages : r1.message_id = r2.message_id => r1 = r2
    /\ \A e \in LastIngests :
         /\ Cardinality(e.row_after) = 1
         /\ e.row_before # {} => e.row_after = e.row_before

\* C1 witness: the "home" account met the list copy of a Message-ID that "work"
\* had stored, with other content; the stored row is still the one of "work".
C1_Witness ==
    /\ \E e \in LastIngests :
         /\ e.raw = "PeerDup"
         /\ e.row_before # {}
         /\ e.row_after = e.row_before
    /\ \E r \in db.messages :
         r.message_id = Id2 /\ r.account_id = "work" /\ r.extracted_new_text = "looks fine"

\* C2 as stated: once a raw message has been ingested, ingesting the same raw
\* message again in the same run (from another folder or account) leaves its
\* messages row and its threads row exactly as they were.
C2_Original ==
    \A i, j \in 1..Len(last.log) :
        (/\ i < j
         /\ last.log[i].op = "ingest"
         /\ last.log[j].op = "ingest"
         /\ last.log[i].raw = last.log[j].raw)
        => /\ last.log[j].row_after = last.log[j].row_before
           /\ last.log[j].thread_after = last.log[j].thread_before

\* C3: no upsert_thread call lowers last_inbound_at_utc or last_outbound_at_utc
\* of the thread's row or sets one back to null, whatever the order of the
\* message timestamps; a message not newer than a stored timestamp leaves that
\* timestamp unchanged.
C3_ThreadTimestampsMonotone ==
    \A e \in LastIngests :
        /\ Cardinality(e.thread_after) = 1
        /\ \A t0 \in e.thread_before : \A t1 \in e.thread_after :
             /\ t0.last_inbound_at_utc # Null
                  => /\ t1.last_inbound_at_utc # Null
                     /\ t1.last_inbound_at_utc >= t0.last_inbound_at_utc
                     /\ e.date_utc <= t0.last_inbound_at_utc
                          => t1.last_inbound_at_utc = t0.last_inbound_at_utc
             /\ t0.last_outbound_at_utc # Null
                  => /\ t1.last_outbound_at_utc # Null
                     /\ t1.last_outbound_at_utc >= t0.last_outbound_at_utc
                     /\ e.date_utc <= t0.last_outbound_at_utc
                          => t1.last_outbound_at_utc = t0.last_outbound_at_utc

\* C3 witness: an inbound message dated 12:00 was ingested into a thread whose
\* last inbound timestamp was already 14:00, and the row kept 14:00.
C3_Witness ==
    \E e \in LastIngests :
        /\ e.raw = "PeerRe"
        /\ e.inbound
        /\ e.date_utc = At(1, 12)
        /\ \E t0 \in e.thread_before : t0.last_inbound_at_utc = At(1, 14)
        /\ \E t1 \in e.thread_after : t1.last_inbound_at_utc = At(1, 14)

----------------------------------------------------------------------------
(* Properties of the schema check (specification SpecSchema).               *)

\* C6 as stated: a run on a store whose recorded schema_hash is not this
\* build's ends with the fatal DatabaseError and has made no write to the store
\* before it: no table created, no meta row inserted, no run_log row.
C6_Original ==
    (last.exit # "" /\ MetaValues(db, "schema_hash") = {OtherHash})
        => (last.exit = "DatabaseError" /\ last.writes = {})

----------------------------------------------------------------------------
(* Properties of the classifiers (specification SpecClassify).              *)

\* the row of the last classifier call matches a suppress pattern
ClSuppressed ==
    \/ AnyContains(cl.rules.suppress.senders, Lower(cl.sender))
    \/ AnyContains(cl.rules.suppress.subjects, Lower(cl.subject))

\* the row of the last classifier call matches an arrival-only pattern
ClArrivalOnly ==
    \/ AnyContains(cl.rules.arrival_only.senders, Lower(cl.sender))
    \/ AnyContains(cl.rules.arrival_only.subjects, Lower(cl.subject))

\* the sender of the last classifier call is exactly a high-priority sender
ClSenderIsHp ==
    \E i \in 1..Len(cl.rules.high_priority_senders) :
        Lower(Strip(cl.rules.high_priority_senders[i])) = Lower(Strip(cl.sender))

\* the address part of the sender of the last classifier call is a
\* high-priority sender
ClAddressIsHp ==
    \E i \in 1..Len(cl.rules.high_priority_senders) :
        Lower(Strip(cl.rules.high_priority_senders[i]))
          = Lower(Strip(GetAddress(cl.sender).email))

\* C7: classify takes the first match of suppress, arrival_only, high_priority,
\* normal: a row matching a suppress pattern is "suppress" even when its sender
\* is high-priority or it matches an arrival-only pattern; a row matching an
\* arrival-only pattern and no suppress pattern is "arrival_only" even when its
\* sender is high-priority; any other row is "high_priority" or "normal"
\* (for window.classify: "high_priority" exactly when the whole sender text,
\* normalized, is a high-priority sender).
C7_ClassifyPrecedence ==
    cl.called =>
        /\ ClSuppressed => cl.result = "suppress"
        /\ (~ClSuppressed /\ ClArrivalOnly) => cl.result = "arrival_only"
        /\ (~ClSuppressed /\ ~ClArrivalOnly) => cl.result \in {"high_priority", "normal"}
        /\ (cl.by = "window" /\ ~ClSuppressed /\ ~ClArrivalOnly)
             => (cl.result = "high_priority" <=> ClSenderIsHp)

\* C7 witness: window.classify was given a row from a high-priority sender that
\* matches a suppress subject pattern and an arrival-only pattern; it said
\* "suppress".
C7_Witness ==
    /\ cl.called
    /\ cl.by = "window"
    /\ ClSenderIsHp
    /\ ClSuppressed
    /\ ClArrivalOnly
    /\ cl.result = "suppress"

\* C8 as stated: window.classify returns "high_priority" for every stored row
\* whose sender's address part, normalized, is a high-priority sender and which
\* matches no suppress or arrival-only pattern, with or without a display name.
C8_Original ==
    (cl.called /\ cl.by = "window" /\ ClAddressIsHp /\ ~ClSuppressed /\ ~ClArrivalOnly)
        => cl.result = "high_priority"

----------------------------------------------------------------------------
(* Properties of the rendered reports (specification Spec).                 *)

\* the configured high-priority senders, normalized
HpSenders == {Lower(Strip(x)) : x \in SeqToSet(Rules.high_priority_senders)}

\* the address part of a stored From value, normalized
AddressOf(sender) == Lower(Strip(GetAddress(sender).email))

\* C9 as stated: in a rendered report, a high-priority sender has no group when
\* the account has sent, in a thread of that sender's inbound messages of the
\* window, a message that is not older than the sender's latest inbound message
\* of the window.
C9_Original ==
    \A r \in last.rendered : \A g \in r.hp_groups :
        LET ins  == {m \in r.messages : m.inbound /\ AddressOf(m.sender) = g.email}
            outs == {m \in r.messages :
                       m.outbound /\ m.thread_id \in {x.thread_id : x \in ins}}
        IN  ~ \E o \in outs : \A m \in ins : o.date_utc >= m.date_utc

\* C10 as stated: a thread holding a stored message from a high-priority sender
\* is never listed under "other threads", whether or not that message lies in
\* the rendered window.
C10_Original ==
    \A r \in last.rendered : \A t \in r.other_threads :
        ~ \E m \in r.store : m.thread_id = t.thread_id /\ AddressOf(m.sender) \in HpSenders

----------------------------------------------------------------------------
(* Runs while something outside the program may fail.                       *)

NextFaults == Deliver \/ MainDays \/ MainBadStart \/ MainFault
SpecFaults == Init /\ [][NextFaults]_vars

\* a step of a run (the mailbox is as before) that ended with an exception
RunFailed == mailbox' = mailbox /\ last'.exit \notin {"", "ok"}

\* a step of a run that an exception raised inside ingest_account ended
IngestionFailed ==
    /\ RunFailed
    /\ last'.log # <<>>
    /\ last'.log[Len(last'.log)].op = "raise"

\* the rows of the store's tables
Rows(d) == [meta |-> d.meta, accounts |-> d.accounts, messages |-> d.messages,
            threads |-> d.threads, run_log |-> d.run_log]

\* C12: when any error ends a run (configuration, schema, secret, connection,
\* IMAP command or message content), the rows of the store are exactly those
\* before the invocation: no meta, accounts, messages, threads or run_log row
\* written by the invocation remains.
C12_RowsRolledBack == [][RunFailed => Rows(db') = Rows(db)]_vars

\* C12 witness: a run has failed after it had written a messages row and
\* run_log rows, and the store holds no row with that message id.
C12_Witness ==
    /\ last.exit = "RuntimeError"
    /\ "insert run_log" \in last.writes
    /\ \E i \in 1..Len(last.log) :
         /\ last.log[i].op = "ingest"
         /\ last.log[i].row_before = {}
         /\ last.log[i].row_after # {}
         /\ \A r \in db.messages : r.message_id # last.log[i].message_id

\* C12 as written: after a run that failed during ingestion the store is in
\* exactly the state it had before the invocation.
C12_Original == [][IngestionFailed => db' = db]_vars

\* the entries of the last run's log that are a raise of one of the kinds
RaisesOf(kinds) ==
    {i \in 1..Len(last.log) : last.log[i].op = "raise" /\ last.log[i].kind \in kinds}

\* the entries of the last run's log before entry i that ingested a message
IngestsBefore(i) == {j \in 1..(i - 1) : last.log[j].op = "ingest"}

\* C13 as written: when a connect, login, select, search or fetch failure ends
\* an account's ingestion, every message ingested earlier in the same run has
\* its messages row and its threads row in the store after the run.
C13_Original ==
    \A i \in RaisesOf({"connect", "select", "search", "fetch"}) :
        \A j \in IngestsBefore(i) :
            /\ last.log[j].row_after \subseteq db.messages
            /\ \E t \in db.threads : t.thread_id = last.log[j].thread_id

\* the sequence numbers of the messages of folder f of account a, other than
\* the leaking ones, whose timestamp lies in [start_utc, end_utc)
InWindowSound(a, f, start_utc, end_utc) ==
    {k \in 1..Len(mailbox.box[a][f]) :
        /\ ~HtmlLeaks(mailbox.box[a][f][k])
        /\ start_utc <= resolve_timestamp_utc(mailbox.box[a][f][k])
        /\ resolve_timestamp_utc(mailbox.box[a][f][k]) < end_utc}

\* C14 as written: a message whose content extraction raises does not abort
\* the batch: the run goes on to its end, and every other message of the same
\* folder and account inside the window is ingested by the run.
C14_Original ==
    \A i \in RaisesOf({"html"}) :
        /\ last.exit = "ok"
        /\ \A k \in InWindowSound(last.log[i].account, last.log[i].folder,
                                   last.log[i].start_utc, last.log[i].end_utc) :
             \E j \in 1..Len(last.log) :
                 /\ last.log[j].op = "ingest"
                 /\ last.log[j].account = last.log[i].account
                 /\ last.log[j].folder = last.log[i].folder
                 /\ last.log[j].uid = k

\* C15 as written: when secret resolution fails for one account, every other
\* configured account is still ingested and committed by the same run: its
\* accounts row is in the store after the run.
C15_Original ==
    \A i \in RaisesOf({"secret"}) :
        \A a \in 1..Len(Accounts) :
            Accounts[a].id # last.log[i].account
              => \E r \in db.accounts : r.id = Accounts[a].id

\* C16 as written: a run that fails on a non-positive day count or an
\* out-of-range workday start has not created or written the store.
C16_Original == last.exit = "ValueError" => last.writes = {}

----------------------------------------------------------------------------
(* The unreplied watch on a store with messages, as time passes.            *)

InitWatch ==
    /\ tw = TwIdle
    /\ cl = ClIdle
    /\ mailbox = EmptyMailbox
    /\ db = WatchStore
    /\ files = NoFiles
    /\ last = NoRun
    /\ wt = WtIdle

NextWatch == Tick \/ FindUnrepliedThreads \/ RunUnrepliedWatch
SpecWatch == InitWatch /\ [][NextWatch]_vars

\* the messages of thread tid not older than the cutoff of the last
\* find_unreplied_threads call
WithinLookback(tid) ==
    {m \in db.messages :
        /\ m.thread_id = tid
        /\ m.date_utc >= wt.args.now_utc - wt.args.lookback_days * MinutesPerDay}

\* thread tid's most recent message within the lookback is inbound, has a
\* target address in To or Cc, and is at least unreplied_after_minutes old
NewestIsOldInboundToTarget(tid) ==
    \E m \in WithinLookback(tid) :
        /\ \A x \in WithinLookback(tid) : x.date_utc <= m.date_utc
        /\ m.inbound
        /\ \E a \in SeqToSet(TargetAddrs(wt.args.target_addresses)) :
             a \in SeqToSet(m.recipients_to) \cup SeqToSet(m.recipients_cc)
        /\ wt.args.now_utc - m.date_utc >= wt.args.unreplied_after_minutes

\* C17 as written: called with target addresses, a positive lookback and a
\* positive threshold, find_unreplied_threads returns exactly the threads whose
\* most recent message within the lookback is an inbound message to a target
\* address at least as old as the threshold (a thread with several unanswered
\* inbound messages among them).
C17_Original ==
    (/\ wt.op = "find"
     /\ wt.args.target_addresses # <<>>
     /\ wt.args.lookback_days > 0
     /\ wt.args.unreplied_after_minutes > 0)
      => {wt.out[i].thread_id : i \in 1..Len(wt.out)}
           = {tid \in {m.thread_id : m \in db.messages} : NewestIsOldInboundToTarget(tid)}

\* the cooldown in force for a cooldown setting c
CooldownOf(c) == Cooldown([notify_cooldown_minutes |-> c])

C19_Original ==
    (wt.op = "watch" /\ wt.out.selected # {})
      => /\ wt.out.raised = ""
         /\ Len(wt.out.sent) = Cardinality({s.rule_id : s \in wt.out.selected})
         /\ wt.out.returned = Cardinality(wt.out.selected)
         /\ \A s \in wt.out.selected :
              \E r \in db.triage_state :
                  r.entity_id = s.thread_id /\ r.entity_type = entity_type(s.rule_id)

\* a step that is a call of run_unreplied_watch
WatchCalled == wt'.op = "watch" /\ wt'.ticks = wt.ticks /\ wt' # wt

\* no thread qualifies for any rule of cfg on store d at now_utc: the watch is
\* disabled, or every rule has no target addresses or nothing to notify
NothingQualifies(d, cfg, now_utc) ==
    \/ ~cfg.enabled
    \/ \A k \in 1..Len(cfg.rules) :
         \/ cfg.rules[k].target_addresses = <<>>
         \/ ToNotify(d, cfg.rules[k], now_utc) = <<>>

\* C20: when no thread qualifies for any rule (or the watch is disabled, or a
\* rule has no target addresses), run_unreplied_watch returns 0 without
\* raising, sends no notification and leaves the store as it was.
C20_NothingQualifiesNothingDone ==
    [][(WatchCalled /\ NothingQualifies(db, wt'.args, wt.now))
         => /\ wt'.out.raised = ""
            /\ wt'.out.returned = 0
            /\ wt'.out.sent = <<>>
            /\ ~wt'.out.wrote
            /\ db' = db]_vars

\* C20 witness: an enabled watch with a rule that has candidates, all of them
\* in cooldown, has returned 0 and sent nothing.
C20_Witness ==
    /\ wt.op = "watch"
    /\ wt.args.enabled
    /\ wt.out.returned = 0
    /\ wt.out.sent = <<>>
    /\ ~wt.out.wrote
    /\ \E k \in 1..Len(wt.args.rules) :
         LET rule == wt.args.rules[k]
         IN  /\ find_unreplied_threads(db, rule.target_addresses, rule.lookback_days,
                                       rule.unreplied_after_minutes, wt.out.at) # <<>>
             /\ ToNotify(db, rule, wt.out.at) = <<>>

\* the reports window.render_window made in the last run
WindowReports == {r \in last.rendered : r.by = "window"}

\* the ids of the threads report r lists under "other threads"
OtherThreadIds(r) == {t.thread_id : t \in r.other_threads}

\* the threads of report r that have a normal-classified message in the window
\* and no high_priority-classified message in it (not hard-excluded)
NormalOpenThreadIds(r) ==
    {m.thread_id : m \in {x \in r.messages : classify(x, Rules) = "normal"}}
      \ {m.thread_id : m \in {x \in r.messages : classify(x, Rules) = "high_priority"}}

\* C11: in a report of window.render_window, a thread with normal-classified
\* messages in the window that is not hard-excluded is listed under "other
\* threads" exactly when it is not already replied: it is left out exactly when
\* its row has both timestamps and last_outbound_at_utc >= last_inbound_at_utc.
\* No other thread is listed.
C11_OtherThreadsIffUnreplied ==
    \A r \in WindowReports :
        /\ OtherThreadIds(r) \subseteq NormalOpenThreadIds(r)
        /\ \A tid \in NormalOpenThreadIds(r) :
             tid \notin OtherThreadIds(r)
               <=> \E t \in r.threads :
                     /\ t.thread_id = tid
                     /\ t.last_outbound_at_utc # Null
                     /\ t.last_inbound_at_utc # Null
                     /\ t.last_outbound_at_utc >= t.last_inbound_at_utc

\* C11 witness: one report lists a thread whose last inbound message is newer
\* than the last reply, and leaves out a thread with normal messages whose
\* last-outbound timestamp equals its last-inbound timestamp.
C11_Witness ==
    \E r \in WindowReports :
        /\ \E tid \in OtherThreadIds(r) : \E t \in r.threads :
             /\ t.thread_id = tid
             /\ t.last_outbound_at_utc # Null
             /\ t.last_inbound_at_utc > t.last_outbound_at_utc
        /\ \E tid \in NormalOpenThreadIds(r) \ OtherThreadIds(r) : \E t \in r.threads :
             /\ t.thread_id = tid
             /\ t.last_outbound_at_utc = t.last_inbound_at_utc

----------------------------------------------------------------------------
(* Properties of the stored rows (specification Spec).                      *)

\* every raw message the servers come to hold
AllRaws == UNION {{Arrivals[i][j].raw : j \in 1..Len(Arrivals[i])} : i \in 1..Len(Arrivals)}

\* the raw message a log entry names
RawNamed(name) == CHOOSE raw \in AllRaws : raw.name = name

\* C21: after every upsert_thread call the thread's participant set holds every
\* address that was stored for the thread before the call, and every From, To
\* and Cc address of the ingested message (normalised).
C21_ParticipantsGrow ==
    \A e \in LastIngests :
        \A t1 \in e.thread_after :
            /\ \A t0 \in e.thread_before : t0.participants \subseteq t1.participants
            /\ extract_participants(RawNamed(e.raw)) \subseteq t1.participants
            /\ normalize_addr(GetAddress(RawNamed(e.raw).From).email) \in t1.participants

\* C21 witness: the owner's reply to the boss was ingested into a thread that
\* had the colleague among its participants; the colleague, who is not on the
\* reply, is still there, and the alias the reply came from was added.
C21_Witness ==
    \E e \in LastIngests :
        /\ e.raw = "MyReply"
        /\ PeAddr \notin extract_participants(MyReply)
        /\ \E t0 \in e.thread_before :
              PeAddr \in t0.participants /\ normalize_addr(Me2Addr) \notin t0.participants
        /\ \E t1 \in e.thread_after :
              PeAddr \in t1.participants /\ normalize_addr(Me2Addr) \in t1.participants

\* the configured account with the given id
AccountOf(account_id) == CHOOSE a \in SeqToSet(Accounts) : a.id = account_id

\* the lower-cased, trimmed addresses an account sends from
IdentitySet(a) ==
    {Lower(Strip(a.primary_address))} \cup {Lower(Strip(x)) : x \in SeqToSet(a.aliases)}

\* C22: every stored messages row has exactly one of the flags inbound and
\* outbound set, and outbound is set exactly when the address of its sender,
\* lower-cased, is the primary address or an alias (lower-cased) of the account
\* the row was ingested for.
C22_FlagsFromIdentity ==
    \A r \in db.messages :
        /\ r.inbound # r.outbound
        /\ r.outbound <=>
             Lower(Strip(GetAddress(r.sender).email)) \in IdentitySet(AccountOf(r.account_id))

\* C22 witness: the store holds an outbound row whose sender matches an alias
\* only when case is ignored, an outbound row sent from the primary address,
\* and an inbound row.
C22_Witness ==
    /\ \E r \in db.messages :
          /\ r.outbound /\ ~r.inbound
          /\ r.account_id = "work"
          /\ r.sender \notin SeqToSet(Work.aliases) \cup {Work.primary_address}
          /\ Lower(r.sender) = Lower(Me2Addr)
    /\ \E r \in db.messages : r.outbound /\ r.sender = MeAddr /\ r.account_id = "work"
    /\ \E r \in db.messages : r.inbound /\ ~r.outbound /\ r.sender = BoAddr

----------------------------------------------------------------------------
(* Message identifiers when a folder loses messages (specification          *)
(* SpecExpunge).                                                            *)

\* the number of messages the servers' folders hold
HeldCount(box) ==
    LET Sum(a) == Len(box[a]["INBOX"]) + Len(box[a]["Sent"])
    IN  Sum("work") + Sum("home")

\* the number of messages the first n batches put into folders
RECURSIVE DeliveredCount(_)
DeliveredCount(n) ==
    IF n = 0 THEN 0
    ELSE DeliveredCount(n - 1)
           + HeldCount([a \in AccountIds |-> [f \in Folders |-> BatchInto(Arrivals[n], a, f)]])

\* the model stops removing messages once this many are gone
MaxExpunge == 1

\* q without its i-th element
RemoveAt(q, i) == SubSeq(q, 1, i - 1) \o SubSeq(q, i + 1, Len(q))

\* A message is deleted and expunged from a folder (by the owner, in a mail
\* client): the messages behind it move up by one sequence number.
Expunge ==
    /\ DeliveredCount(mailbox.delivered) - HeldCount(mailbox.box) < MaxExpunge
    /\ \E a \in AccountIds : \E f \in Folders : \E i \in 1..Len(mailbox.box[a][f]) :
          mailbox' = [mailbox EXCEPT !.box[a][f] = RemoveAt(@, i)]
    /\ UNCHANGED <<tw, cl, db, files, last, wt>>

NextExpunge == Deliver \/ MainDate \/ Expunge

SpecExpunge == Init /\ [][NextExpunge]_vars

\* two rows that stem from one message of one folder: same account, folder,
\* timestamp, sender, recipients, subject and text (the folders of the model
\* hold no two messages alike in all of these)
SameMailboxMessage(r1, r2) ==
    /\ r1.account_id = r2.account_id
    /\ r1.folder = r2.folder
    /\ r1.date_utc = r2.date_utc
    /\ r1.sender = r2.sender
    /\ r1.recipients_to = r2.recipients_to
    /\ r1.recipients_cc = r2.recipients_cc
    /\ r1.subject = r2.subject
    /\ r1.extracted_new_text = r2.extracted_new_text

\* C23 as stated: a mailbox message gets the same identifier on every
\* ingestion run, also after other messages were removed from its folder, so
\* the store never holds two rows for one message of one folder.
C23_Original ==
    \A r1, r2 \in db.messages : SameMailboxMessage(r1, r2) => r1.message_id = r2.message_id

----------------------------------------------------------------------------
(* core/extract.py: extract_new_text (specification SpecExtract).  A text   *)
(* is the sequence of its lines, text.split("\n"); the empty text is <<>>.  *)

\* ln.strip() == ""
BlankLine(ln) == Strip(ln) = S0

RECURSIVE DropLeadingBlank(_)
DropLeadingBlank(lines) ==
    IF lines # <<>> /\ BlankLine(Head(lines)) THEN DropLeadingBlank(Tail(lines)) ELSE lines

RECURSIVE DropTrailingBlank(_)
DropTrailingBlank(lines) ==
    IF lines # <<>> /\ BlankLine(lines[Len(lines)])
    THEN DropTrailingBlank(SubSeq(lines, 1, Len(lines) - 1)) ELSE lines

\* "\n".join(lines).strip(), as lines again
StripText(lines) ==
    LET a == DropTrailingBlank(DropLeadingBlank(lines))
    IN  [i \in 1..Len(a) |->
            IF Len(a) = 1 THEN Strip(a[i])
            ELSE IF i = 1 THEN LStrip(a[i])
            ELSE IF i = Len(a) THEN RStrip(a[i])
            ELSE a[i]]

\* the loop of normalize_text: a run of blank lines keeps its first two
RECURSIVE CollapseBlank(_, _)
CollapseBlank(lines, blank) ==
    IF lines = <<>> THEN <<>>
    ELSE IF BlankLine(Head(lines))
         THEN (IF blank + 1 <= 2 THEN <<S0>> ELSE <<>>) \o CollapseBlank(Tail(lines), blank + 1)
         ELSE <<Head(lines)>> \o CollapseBlank(Tail(lines), 0)

\* normalize_text
normalize_text(text) ==
    StripText(CollapseBlank([i \in 1..Len(text) |-> RStrip(text[i])], 0))

\* ln[:20]
StructuredLookahead == 20

\* the loop of strip_structured_blocks: the leading lines that start with a
\* space or hold a colon among their first 20 characters are skipped
RECURSIVE DropStructured(_)
DropStructured(lines) ==
    IF lines # <<>> /\ (\/ StartsWith(<<" ">>, Head(lines))
                        \/ Contains(<<":">>, SubSeq(Head(lines), 1,
                                        IF Len(Head(lines)) < StructuredLookahead
                                        THEN Len(Head(lines)) ELSE StructuredLookahead)))
    THEN DropStructured(Tail(lines))
    ELSE lines

\* strip_structured_blocks: (text, structured)
strip_structured_blocks(text) ==
    [text |-> StripText(DropStructured(text)), flag |-> DropStructured(text) # text]

QUOTE_PREFIXES ==
    { <<"o", "n", " ">>, <<"f", "r", "o", "m", ":">>, <<"s", "e", "n", "t", ":">>,
      <<"-", "-", "-", "-", "-", "o", "r", "i", "g", "i", "n", "a", "l", " ",
        "m", "e", "s", "s", "a", "g", "e", "-", "-", "-", "-", "-">> }

\* the test of strip_quotes on one line
QuoteLine(ln) ==
    LET low == Strip(Lower(ln))
    IN  StartsWith(<<">">>, low) \/ \E p \in QUOTE_PREFIXES : StartsWith(p, low)

\* the lines before the first one that satisfies Test, or all of them
FirstAt(lines, hits) ==
    IF hits = {} THEN 0 ELSE CHOOSE i \in hits : \A j \in hits : i <= j

\* strip_quotes: (text, trimmed)
strip_quotes(text) ==
    LET i == FirstAt(text, {k \in 1..Len(text) : QuoteLine(text[k])})
    IN  IF i = 0 THEN [text |-> text, flag |-> FALSE]
        ELSE [text |-> StripText(SubSeq(text, 1, i - 1)), flag |-> TRUE]

\* strip_signature: (text, trimmed); the stripped line is "--"
strip_signature(text) ==
    LET i == FirstAt(text, {k \in 1..Len(text) : Strip(text[k]) = <<"-", "-">>})
    IN  IF i = 0 THEN [text |-> text, flag |-> FALSE]
        ELSE [text |-> StripText(SubSeq(text, 1, i - 1)), flag |-> TRUE]

ExtractedContent(source, text, trimmed_quote, trimmed_signature, has_structured_block) ==
    [source |-> source, text |-> text, trimmed_quote |-> trimmed_quote,
     trimmed_signature |-> trimmed_signature,
     has_structured_block |-> has_structured_block]

\* `body: str | None`: None, or a text
NoneBody == [none |-> TRUE, text |-> <<>>]
StrBody(text) == [none |-> FALSE, text |-> text]

\* extract_new_text(subject, body)
extract_new_text(subject, body) ==
    IF body.none \/ StripText(body.text) = <<>>
    THEN IF Strip(subject) # S0
         THEN ExtractedContent("subject", <<Strip(subject)>>, FALSE, FALSE, FALSE)
         ELSE ExtractedContent("none", <<>>, FALSE, FALSE, FALSE)
    ELSE LET st == strip_structured_blocks(normalize_text(body.text))
             q  == strip_quotes(st.text)
             sg == strip_signature(q.text)
         IN  IF sg.text = <<>> /\ Strip(subject) # S0
             THEN ExtractedContent("subject", <<Strip(subject)>>, q.flag, sg.flag, st.flag)
             ELSE ExtractedContent("body", sg.text, q.flag, sg.flag, st.flag)

\* the longest body the model passes, in lines
MaxBodyLines == 3

\* the lines bodies are made of: plain, blank, indented, quoted, a quote
\* header, a mail header, a signature delimiter
ExLines ==
    { <<"h", "i">>, S0, <<" ">>, <<" ", "x">>, <<">", "q">>,
      <<"O", "n", " ", "x">>, <<"T", "o", ":", "x">>, <<"-", "-", " ">> }

ExBodies == {NoneBody} \cup {StrBody(t) : t \in UNION {[1..n -> ExLines] : n \in 0..MaxBodyLines}}

ExSubjects == {S0, <<" ">>, <<" ", "S", " ">>}

ExArgs == { [subject |-> a, body |-> b, called |-> FALSE,
             result |-> ExtractedContent("", <<>>, FALSE, FALSE, FALSE)] :
              a \in ExSubjects, b \in ExBodies }

\* extract_new_text applied to a subject and a body
ExtractNewText ==
    /\ ~cl.called
    /\ cl' = [cl EXCEPT !.called = TRUE, !.result = extract_new_text(cl.subject, cl.body)]
    /\ UNCHANGED <<tw, mailbox, db, files, last, wt>>

InitExtract ==
    /\ tw = TwIdle
    /\ cl \in ExArgs
    /\ mailbox = EmptyMailbox
    /\ db = NoStore
    /\ files = NoFiles
    /\ last = NoRun
    /\ wt = WtIdle

NextExtract == ExtractNewText

SpecExtract == InitExtract /\ [][NextExtract]_vars

\* what is left of a body after normalisation and the three stripping steps
StrippedBody(body) ==
    IF body.none THEN <<>>
    ELSE strip_signature(strip_quotes(strip_structured_blocks(normalize_text(body.text)).text).text).text

\* C24 as stated: whenever the text left after stripping is empty,
\* extract_new_text gives the trimmed subject with source "subject" if the
\* subject is not blank and the empty text with source "none" if it is; source
\* "body" comes only with a non-empty text, which is the stripped body.
C24_Original ==
    cl.called =>
        /\ (StrippedBody(cl.body) = <<>> /\ Strip(cl.subject) # S0)
             => cl.result.source = "subject" /\ cl.result.text = <<Strip(cl.subject)>>
        /\ (StrippedBody(cl.body) = <<>> /\ Strip(cl.subject) = S0)
             => cl.result.source = "none" /\ cl.result.text = <<>>
        /\ cl.result.source = "body"
             => cl.result.text # <<>> /\ cl.result.text = StrippedBody(cl.body)

----------------------------------------------------------------------------
(* Running again over the same windows (specification Spec).                *)

\* the windows of the reports a run rendered, oldest first
RECURSIVE WindowsOf(_)
WindowsOf(reports) ==
    IF reports = {} THEN <<>>
    ELSE LET r == CHOOSE x \in reports : \A y \in reports : x.start_utc <= y.start_utc
         IN  <<[label_date |-> r.label_date, start_utc |-> r.start_utc,
                end_utc |-> r.end_utc]>> \o WindowsOf(reports \ {r})

\* main() invoked once more on store d for the windows ws, with the folders
\* `boxes` on the servers: the windows are logged, ingested and rendered
RunAgain(d, f, ws, boxes) ==
    RunWindows(RecordRunWindows(d, ws), <<>>, f, {}, ws, Env(boxes, NoFault))

\* C25 as stated: when a run has ended well, running the pipeline again over
\* the same windows, with the mailbox and the rules as they are, writes for
\* every window the report that the run wrote.
C25_Original ==
    [][(last' # last /\ last'.exit = "ok" /\ \A r \in last'.rendered : r.by = "window")
         => \E again \in {RunAgain(db', files', WindowsOf(last'.rendered), mailbox'.box)} :
               /\ again.raised = ""
               /\ \A r2 \in again.rendered : \A r1 \in last'.rendered :
                     r1.label_date = r2.label_date => FileOf(r2) = FileOf(r1)]_vars

----------------------------------------------------------------------------
(* The window of ingestion and of the range query (specification Spec).     *)

\* the reports main() rendered in the last run
MainReports == {r \in last.rendered : r.by = "window"}

\* C26: every messages row ingest_account writes for a window carries the
\* message's Date header time, or the server's arrival time when there is no
\* usable Date header, and that time t satisfies start_utc <= t < end_utc;
\* nothing is stored of a fetched message outside the window (every stored row
\* and every thread timestamp lies in a window some run was made for); and the
\* range query of the renderer returned exactly the stored rows with
\* start_utc <= date_utc < end_utc, in ascending order of date_utc.
C26_WindowedIngestAndQuery ==
    /\ \A e \in LastIngests :
         /\ e.date_utc = (IF RawNamed(e.raw).Date # NoDateHdr THEN RawNamed(e.raw).Date
                          ELSE RawNamed(e.raw).InternalDate)
         /\ e.start_utc <= e.date_utc /\ e.date_utc < e.end_utc
         /\ \A r \in e.row_after \ e.row_before : r.date_utc = e.date_utc
    /\ \A m \in db.messages :
         \E w \in BagToSet(db.run_log) : w.start_utc <= m.date_utc /\ m.date_utc < w.end_utc
    /\ \A t \in db.threads :
         \A at \in {t.last_inbound_at_utc, t.last_outbound_at_utc} \ {Null} :
             \E w \in BagToSet(db.run_log) : w.start_utc <= at /\ at < w.end_utc
    /\ last.exit = "ok" =>
         \A r \in MainReports :
             /\ SeqToSet(r.loaded)
                  = {m \in db.messages : r.start_utc <= m.date_utc /\ m.date_utc < r.end_utc}
             /\ Len(r.loaded) = Cardinality(SeqToSet(r.loaded))
             /\ \A i, j \in 1..Len(r.loaded) :
                  i < j => r.loaded[i].date_utc <= r.loaded[j].date_utc

\* C26 witness: a run for day 1 fetched the messages of day 2 as well (the
\* SINCE search goes by day) and stored none of them, and the range query
\* returned PeerRe (12:00) before BossRe (14:00), which was stored first.
C26_Witness ==
    /\ last.exit = "ok"
    /\ \E k \in 1..Len(mailbox.box["work"]["INBOX"]) :
          mailbox.box["work"]["INBOX"][k].name = "PeerLate"
    /\ \A m \in db.messages : m.date_utc < At(2, 9)
    /\ \E r \in MainReports : \E i, j \in 1..Len(r.loaded) :
          /\ i < j
          /\ r.loaded[i].message_id = Id2
          /\ r.loaded[j].message_id = Id3
    /\ \E i, j \in 1..Len(last.log) :
          /\ i < j
          /\ last.log[i].op = "ingest" /\ last.log[i].raw = "BossRe"
          /\ last.log[j].op = "ingest" /\ last.log[j].raw = "PeerRe"

----------------------------------------------------------------------------
(* The order of the work of one invocation (specification Spec).            *)

\* the place of an account in cfg.accounts, and of a folder in its folders
AccountIndex(id) == CHOOSE i \in 1..Len(Accounts) : Accounts[i].id = id
FolderIndex(id, f) ==
    CHOOSE j \in 1..Len(AccountOf(id).folders) : AccountOf(id).folders[j] = f

\* the start of the window a log entry belongs to (a render entry names the
\* label day of its report)
StartOf(e) ==
    IF e.op = "render"
    THEN (CHOOSE r \in MainReports : r.label_date = e.label_date).start_utc
    ELSE e.start_utc

\* the entries of the last run's log are in the order: window (oldest first),
\* within a window the ingestion by account and folder as configured, then the
\* rendering of the window
LogInOrder ==
    \A i, j \in 1..Len(last.log) :
        i < j =>
            LET a == last.log[i]
                b == last.log[j]
            IN  /\ StartOf(a) <= StartOf(b)
                /\ a.op = "render" => StartOf(a) < StartOf(b)
                /\ (a.op = "ingest" /\ b.op = "ingest" /\ StartOf(a) = StartOf(b))
                     => /\ AccountIndex(a.account) <= AccountIndex(b.account)
                        /\ a.account = b.account
                             => FolderIndex(a.account, a.folder)
                                  <= FolderIndex(b.account, b.folder)

\* when a window is rendered, every message of every configured account and
\* folder that lies in the window has been ingested for it
AllIngestedBeforeRender ==
    \A j \in 1..Len(last.log) :
        last.log[j].op = "render" =>
            \A r \in {x \in MainReports : x.label_date = last.log[j].label_date} :
              \A a \in AccountIds : \A f \in SeqToSet(AccountOf(a).folders) :
                \A k \in InWindowSound(a, f, r.start_utc, r.end_utc) :
                    \E i \in 1..(j - 1) :
                        /\ last.log[i].op = "ingest"
                        /\ last.log[i].account = a
                        /\ last.log[i].folder = f
                        /\ last.log[i].uid = k
                        /\ last.log[i].start_utc = r.start_utc

\* C27: in every invocation the windows are processed oldest first; for each
\* window every configured account is ingested, accounts and folders in
\* configured order, before the window is rendered; and the window is rendered
\* before any ingestion for the next window.
C27_WindowsInOrder ==
    [][(last' # last /\ \A r \in last'.rendered : r.by = "window")
         => (LogInOrder /\ AllIngestedBeforeRender)']_vars

\* C27 witness: a run over two windows that ingested from both folders of
\* "work" and from "home" for the first, rendered it, then ingested from both
\* accounts for the second and rendered it.
C27_Witness ==
    /\ last.exit = "ok"
    /\ Cardinality(MainReports) = 2
    /\ LogInOrder
    /\ \E i1, i2, i3, i4, i5, i6, i7 \in 1..Len(last.log) :
          /\ i1 < i2 /\ i2 < i3 /\ i3 < i4 /\ i4 < i5 /\ i5 < i6 /\ i6 < i7
          /\ last.log[i1].op = "ingest" /\ last.log[i1].account = "work"
          /\ last.log[i1].folder = "INBOX"
          /\ last.log[i2].op = "ingest" /\ last.log[i2].account = "work"
          /\ last.log[i2].folder = "Sent"
          /\ last.log[i3].op = "ingest" /\ last.log[i3].account = "home"
          /\ last.log[i4].op = "render"
          /\ last.log[i5].op = "ingest" /\ last.log[i5].account = "work"
          /\ last.log[i5].start_utc > last.log[i3].start_utc
          /\ last.log[i6].op = "ingest" /\ last.log[i6].account = "home"
          /\ last.log[i7].op = "render"

----------------------------------------------------------------------------
(* The meta table under changing configurations (specification SpecMeta).   *)

\* time settings other than CfgTime: another zone, another workday start
OtherCfgTimes == {[timezone |-> NewYorkFall, workday_start |-> <<9, 0>>],
                  [timezone |-> UTC, workday_start |-> <<2, 30>>]}

\* mailtriage run after the configuration's time settings were edited
MainOtherConfig == \E cfg_time \in OtherCfgTimes : Main(cfg_time, NoDays, NoDate, NoFault)

NextMeta == Deliver \/ MainDays \/ MainOtherConfig \/ MainBadStart

SpecMeta == Init /\ [][NextMeta]_vars

\* C28: a meta key is written only when absent: the store holds at most one
\* row per key, and a row once in the store stays as it is through every later
\* open, whatever timezone and workday start that open is configured with.
C28_MetaFirstWriterWins ==
    [][\A k \in {"schema_version", "schema_hash", "timezone", "workday_start"} :
         /\ MetaValues(db, k) # {} => MetaValues(db', k) = MetaValues(db, k)
         /\ Cardinality({m \in db'.meta : m.key = k}) <= 1]_vars

\* C28 witness: the store records UTC and 09:00, the settings of its first
\* open, and has logged the window of a later run whose configuration made
\* windows start at another time of day.
C28_Witness ==
    /\ last.exit = "ok"
    /\ MetaValues(db, "timezone") = {"UTC"}
    /\ MetaValues(db, "workday_start") = {<<9, 0>>}
    /\ MetaValues(db, "schema_version") = {"1"}
    /\ MetaValues(db, "schema_hash") = {schema_hash}
    /\ \E w \in BagToSet(db.run_log) : w.start_utc % MinutesPerDay # 9 * MinutesPerHour

----------------------------------------------------------------------------
(* Threads of a conversation (specification Spec).                          *)

\* a raw message that opens a conversation: a well-formed Message-ID and
\* neither References nor In-Reply-To
IsRoot(raw) ==
    /\ MsgIdFullMatch(Strip(raw.Message_ID))
    /\ Strip(raw.References) = S0
    /\ Strip(raw.In_Reply_To) = S0

\* C29 as stated: a message with a well-formed Message-ID and no References or
\* In-Reply-To header, and a reply whose References (or, failing that,
\* In-Reply-To) chain starts with that Message-ID, get the same thread id.
C29_Original ==
    \A e1, e2 \in LastIngests :
        (/\ IsRoot(RawNamed(e1.raw))
         /\ canonical_root_reference(RawNamed(e2.raw)) = Strip(RawNamed(e1.raw).Message_ID))
        => e1.thread_id = e2.thread_id

----------------------------------------------------------------------------
(* automation/daily_runner.py (specification SpecDaily).  `cl` holds the    *)
(* last call of the runner.                                                 *)

\* _window_label_for_now: yesterday once today's workday start has passed,
\* the day before yesterday until then
window_label_for_now(today, after_start) ==
    IF after_start THEN today - 1 ELSE today - 2

\* report_path.exists()
ReportExists(f, label_day) == \E x \in f : x[1] = label_day

\* no runner call yet; latest.md is not there
RunnerIdle == [called |-> FALSE, force |-> FALSE, label_day |-> NoDate, ran |-> FALSE,
               rc |-> 0, has_latest |-> FALSE, latest |-> NoDate]

\* what main() of the runner returns after mailtriage_main: 2 when it raised
ReturnCode(exit) == IF exit = "ok" THEN 0 ELSE 2

\* mailtriage-daily [--force], started on local day Today before or after the
\* workday start: label_day, `mailtriage run --days 1` when forced or when the
\* report of label_day is not there, then latest.md -> the report of label_day
\* when that exists
DailyRunner ==
    \E force \in BOOLEAN : \E after_start \in BOOLEAN :
        LET label_day == window_label_for_now(Today, after_start)
            Called(ran, rc, f) ==
                [called |-> TRUE, force |-> force, label_day |-> label_day, ran |-> ran,
                 rc |-> rc,
                 has_latest |-> IF rc = 0 /\ ReportExists(f, label_day) THEN TRUE
                                ELSE cl.has_latest,
                 latest |-> IF rc = 0 /\ ReportExists(f, label_day) THEN label_day
                            ELSE cl.latest]
        IN  /\ IF force \/ ~ReportExists(files, label_day)
               THEN /\ MainRun(CfgTime, 1, NoDate, NoFault)
                    /\ cl' = Called(TRUE, ReturnCode(last'.exit), files')
               ELSE /\ cl' = Called(FALSE, 0, files)
                    /\ UNCHANGED <<db, files, last>>
            /\ UNCHANGED <<tw, mailbox, wt>>

InitDaily ==
    /\ tw = TwIdle
    /\ cl = RunnerIdle
    /\ mailbox = EmptyMailbox
    /\ db = NoStore
    /\ files = NoFiles
    /\ last = NoRun
    /\ wt = WtIdle

NextDaily == Deliver \/ DailyRunner \/ MainDate

SpecDaily == InitDaily /\ [][NextDaily]_vars

\* C30 as stated: when the runner has triggered a run and the run succeeded,
\* the report file of the label day the runner computed exists, it is a report
\* that run generated, and latest.md points to it.
C30_Original ==
    [][(cl' # cl /\ cl'.ran /\ cl'.rc = 0)
         => /\ ReportExists(files', cl'.label_day)
            /\ cl'.has_latest /\ cl'.latest = cl'.label_day
            /\ \E r \in last'.rendered : r.label_date = cl'.label_day]_vars

====
